---- MODULE Spec2Model ----
(***************************************************************************)
(* Process and memory management simulator (src/script.js): round-robin    *)
(* scheduling with a time quantum, coupled with a first-fit allocator with *)
(* coalescing.  The tick engine is modelled phase by phase; the allocator  *)
(* class is also exercised on its own through its two public methods.      *)
(***************************************************************************)
EXTENDS Integers, Sequences, FiniteSets, TLC

(***************************************************************************)
(* CONFIG (script.js 3-15).  The capacity and the request range are the    *)
(* configuration instantiated at a small scale (capacity 100, requests     *)
(* 20..60) so that exhaustion occurs with a few processes; the burst, I/O  *)
(* and quantum values are the ones of the source.                          *)
(***************************************************************************)
MEM_TOTAL == 100
MIN_PROC_MEM == 20
MAX_PROC_MEM == 60
MIN_CPU_BURST == 3
MAX_CPU_BURST == 15
MIN_IO == 2
MAX_IO == 6
TIME_QUANTUM == 3

(* Bounds of the exploration: pids handed out since the last reset and    *)
(* ticks since the last reset, for each specification.                     *)
MaxPid == 2
MaxTicks == 3
MemMaxPid == 3
MemMaxTicks == 3
QuantumMaxPid == 2
QuantumMaxTicks == 10
WaitMaxPid == 4
WaitMaxTicks == 3
BlockMaxPid == 2
BlockMaxTicks == 5
DrainMaxPid == 2
DrainMaxTicks == 16
(* The tick from which no process is created and the I/O trigger does not  *)
(* fire in the runs that drain (SpecDrain).                                *)
DrainQuiet == 2
(* Requests of the session in the runs of the web application (SpecRbac). *)
RbacMaxRequests == 4

(* The value of parseInt on text that is no number; every comparison with  *)
(* it is false and arithmetic on it yields it again.                       *)
NaN == -1
(* currentRunning = null, and the null result of firstFitAllocate.         *)
NoPid == 0
NoBlock == <<>>

(* Values randomInt(MIN_PROC_MEM, MAX_PROC_MEM) is drawn from.             *)
MemChoices == {50, MAX_PROC_MEM}
(* Values randomInt(MIN_CPU_BURST, MAX_CPU_BURST) is drawn from.           *)
BurstChoices == {MIN_CPU_BURST, 4}
(* Values randomInt(MIN_IO, MAX_IO) is drawn from.                         *)
IoChoices == {MIN_IO}
(* What parseInt can return for the two fields of the manual form; a      *)
(* memory field that is no number is among the inputs of SpecMem.          *)
ManualMemInputs == MemChoices \cup {MIN_PROC_MEM - 1, MAX_PROC_MEM + 1}
ManualBurstInputs == BurstChoices \cup {NaN, MIN_CPU_BURST - 1, MAX_CPU_BURST + 1}

(* The draws and inputs of the memory-contention runs (SpecMem): more      *)
(* request sizes, the shortest burst, IO_PROB = 0.                         *)
MemMemChoices == {MIN_PROC_MEM, 40, 50, MAX_PROC_MEM}
MemBurstChoices == {MIN_CPU_BURST}
MemManualMemInputs == MemMemChoices \cup {NaN, MIN_PROC_MEM - 1, MAX_PROC_MEM + 1}
MemManualBurstInputs == MemBurstChoices \cup {MIN_CPU_BURST - 1, MAX_CPU_BURST + 1}

(* The inputs of the scheduling runs (SpecQuantum): NEW_PROC_PROB = 0 and  *)
(* IO_PROB = 0, processes created through the manual form.                 *)
QuantumManualMemInputs == {MIN_PROC_MEM - 1, MIN_PROC_MEM, 40, MAX_PROC_MEM + 1}
QuantumManualBurstInputs ==
    {MIN_CPU_BURST - 1, MIN_CPU_BURST, 10, MAX_CPU_BURST + 1}

(* The inputs of the runs with several waiters (SpecWait): NEW_PROC_PROB = *)
(* 0 and IO_PROB = 0, valid requests of four sizes and the shortest burst. *)
WaitManualMemInputs == {MIN_PROC_MEM, 40, 50, MAX_PROC_MEM}
WaitManualBurstInputs == {MIN_CPU_BURST}

(* Math.random() is taken to return k / RandomSteps for a k of             *)
(* 0 .. RandomSteps - 1; randomInt(min, max) (script.js 148-150) is then   *)
(* floor(k / RandomSteps * (max - min + 1)) + min.                         *)
RandomSteps == MAX_IO - MIN_IO + 1
RandomInt(min, max, k) == ((k * (max - min + 1)) \div RandomSteps) + min

(* The inputs and draws of the runs with I/O (SpecBlock): NEW_PROC_PROB =  *)
(* 0, one request size, two short bursts, the longer one outlasting a      *)
(* quantum by two ticks, and the two shortest I/O durations                *)
(* randomInt(MIN_IO, MAX_IO) returns.                                      *)
BlockManualMemInputs == {40}
BlockManualBurstInputs == {MIN_CPU_BURST, TIME_QUANTUM + 2}
BlockIoChoices == {RandomInt(MIN_IO, MAX_IO, k) : k \in {0, 1}}

(* The inputs of the runs that drain (SpecDrain): a request size that two  *)
(* processes cannot hold together, the shortest burst, and a memory field  *)
(* or a burst field that parseInt turns into NaN.                          *)
DrainManualMemInputs == {MAX_PROC_MEM, NaN}
DrainManualBurstInputs == {MIN_CPU_BURST, NaN}

(***************************************************************************)
(* JavaScript number comparisons and arithmetic in the presence of NaN.    *)
(***************************************************************************)
JsGeq(a, b) == a # NaN /\ b # NaN /\ a >= b
JsLt(a, b) == a # NaN /\ b # NaN /\ a < b
JsGt(a, b) == a # NaN /\ b # NaN /\ a > b
JsLeq(a, b) == a # NaN /\ b # NaN /\ a <= b
JsDec(a) == IF a = NaN THEN NaN ELSE a - 1

(***************************************************************************)
(* MemoryManager (script.js 59-138).  The free list is a sequence of       *)
(* <<start, size>>; allocs is a function from pids to <<start, size>>.     *)
(***************************************************************************)
Range(s) == {s[i] : i \in DOMAIN s}

RemoveAt(s, i) == SubSeq(s, 1, i - 1) \o SubSeq(s, i + 1, Len(s))

(* Mutant of FirstFitIndex: the last interval that fits.                   *)
LastFitIndex(fr, size) ==
    LET fits == {i \in DOMAIN fr : JsGeq(fr[i][2], size)}
    IN  IF fits = {} THEN 0 ELSE CHOOSE i \in fits : \A j \in fits : i >= j

(* Index of the first free interval with sz >= size, 0 when there is none. *)
FirstFitIndex(fr, size) ==
    LET fits == {i \in DOMAIN fr : JsGeq(fr[i][2], size)}
    IN  IF fits = {} THEN 0 ELSE CHOOSE i \in fits : \A j \in fits : i <= j

(* Mutant of FirstFitAllocate: a larger interval is not shrunk.            *)
FirstFitAllocateNoShrink(fr, al, pid, size) ==
    LET idx == FirstFitIndex(fr, size)
    IN  IF idx = 0
        THEN [free |-> fr, allocs |-> al, ret |-> NoBlock]
        ELSE LET start == fr[idx][1]
                 sz == fr[idx][2]
             IN  [free |-> IF sz = size THEN RemoveAt(fr, idx) ELSE fr,
                  allocs |-> (pid :> <<start, size>>) @@ al,
                  ret |-> <<start, size>>]

(* firstFitAllocate(pid, size): the new free list, the new allocs and the  *)
(* value returned.                                                         *)
FirstFitAllocate(fr, al, pid, size) ==
    LET idx == FirstFitIndex(fr, size)
    IN  IF idx = 0
        THEN [free |-> fr, allocs |-> al, ret |-> NoBlock]
        ELSE LET start == fr[idx][1]
                 sz == fr[idx][2]
             IN  [free |-> IF sz = size
                           THEN RemoveAt(fr, idx)
                           ELSE [fr EXCEPT ![idx] = <<start + size, sz - size>>],
                  allocs |-> (pid :> <<start, size>>) @@ al,
                  ret |-> <<start, size>>]

(* free.sort((a, b) => a[0] - b[0]): a stable sort by start.               *)
RECURSIVE SortByStart(_)
SortByStart(s) ==
    IF Len(s) <= 1 THEN s
    ELSE LET rest == SortByStart(Tail(s))
             x == Head(s)
             k == Cardinality({i \in DOMAIN rest : rest[i][1] < x[1]})
         IN  SubSeq(rest, 1, k) \o <<x>> \o SubSeq(rest, k + 1, Len(rest))

(* Mutant of MergeInto: nothing is merged.                                 *)
MergeIntoNone(merged, s) == merged \o s

(* The merge loop of freeAlloc: one pass, joining an interval to the last  *)
(* merged one when that one ends where it starts.                          *)
RECURSIVE MergeInto(_, _)
MergeInto(merged, s) ==
    IF s = <<>> THEN merged
    ELSE LET x == Head(s)
             n == Len(merged)
         IN  IF n = 0 THEN MergeInto(<<x>>, Tail(s))
             ELSE IF merged[n][1] + merged[n][2] = x[1]
                  THEN MergeInto([merged EXCEPT ![n] = <<merged[n][1], merged[n][2] + x[2]>>],
                                 Tail(s))
                  ELSE MergeInto(Append(merged, x), Tail(s))

(* Mutant of FreeAlloc: the block is dropped from allocs and not returned  *)
(* to the free list.                                                       *)
FreeAllocLost(fr, al, pid) ==
    [free |-> fr, allocs |-> [q \in DOMAIN al \ {pid} |-> al[q]]]

(* freeAlloc(pid): the new free list and the new allocs.                   *)
FreeAlloc(fr, al, pid) ==
    IF pid \notin DOMAIN al
    THEN [free |-> fr, allocs |-> al]
    ELSE [free |-> MergeInto(<<>>, SortByStart(Append(fr, al[pid]))),
          allocs |-> [q \in DOMAIN al \ {pid} |-> al[q]]]

RECURSIVE SumSizes(_)
SumSizes(s) == IF s = <<>> THEN 0 ELSE Head(s)[2] + SumSizes(Tail(s))

(* freeSpace()                                                             *)
FreeSpace(fr) == SumSizes(fr)

RECURSIVE SumAllocs(_, _)
SumAllocs(al, ps) ==
    IF ps = {} THEN 0
    ELSE LET p == CHOOSE q \in ps : TRUE
         IN  al[p][2] + SumAllocs(al, ps \ {p})

(* Sum of the sizes of the blocks of usedBlocks().                         *)
UsedSpace(al) == SumAllocs(al, DOMAIN al)

(***************************************************************************)
(* Global state of the simulator (script.js 17-38, 141).                   *)
(*   pc     position inside tick(): "idle" between handlers, else the      *)
(*          phase that runs next                                           *)
(*   toTry  the copy of waitingForMem that freeMemoryAndAwaken iterates    *)
(*   fault  the handler that ran last ended with an uncaught TypeError     *)
(*   guiUpdates  the calls of updateGUI made by the handler that ran last  *)
(*          (script.js 248, 1026, 1053), 0 while a tick is under way       *)
(*   lastCall  the last direct call on the MemoryManager and its result    *)
(*   timers  the number of intervals set by setInterval(tick, ...) and not  *)
(*          cleared since                                                   *)
(*   tickInterval  the handle kept in the variable of that name: "null",   *)
(*          "live" (of an interval that is set) or "cleared" (of one that   *)
(*          clearInterval has ended)                                        *)
(*   rbac   the state of the access-control web application              *)
(*          (rbac-app/src/server.js), which the simulator never touches    *)
(***************************************************************************)
VARIABLES PID_COUNTER, tickCount, isRunning, timers, tickInterval,
          completedProcesses, totalWaitTime, contextSwitches, totalProcessesCreated,
          processStartTimes, processes, readyQueue, ioQueue, waitingForMem,
          currentRunning, free, allocs, pc, toTry, fault, guiUpdates, lastCall,
          rbac

simVars == <<PID_COUNTER, tickCount, isRunning, timers, tickInterval,
             completedProcesses, totalWaitTime,
             contextSwitches, totalProcessesCreated, processStartTimes, processes,
             readyQueue, ioQueue, waitingForMem, currentRunning, pc, toTry, fault,
             guiUpdates>>

vars == <<PID_COUNTER, tickCount, isRunning, timers, tickInterval,
          completedProcesses, totalWaitTime,
          contextSwitches, totalProcessesCreated, processStartTimes, processes,
          readyQueue, ioQueue, waitingForMem, currentRunning, free, allocs, pc,
          toTry, fault, guiUpdates, lastCall, rbac>>

EmptyMap == [q \in {} |-> 0]

(***************************************************************************)
(* The access-control web application (rbac-app/src/server.js, authz.js).  *)
(***************************************************************************)
(* Permisos (authz.js 65-72); the accents of the values are left out.      *)
LECTURA == "LECTURA"
EDICION == "EDICION"
APROBACION == "APROBACION"
DECISION == "DECISION"
CONTROL == "CONTROL"
GESTION_TOTAL == "GESTION_TOTAL"

(* The roles of seed() (server.js 100-105): nombre and permisos.           *)
Roles ==
    [Personal |-> {LECTURA},
     Jefe |-> {LECTURA, EDICION},
     Gerente |-> {LECTURA, EDICION, APROBACION},
     Director |-> {LECTURA, EDICION, APROBACION, DECISION},
     Supervisor |-> {LECTURA, CONTROL},
     Administrador |-> {GESTION_TOTAL}]

(* The users of seed() (server.js 107-111), in the order of registration.  *)
SeedUsuarios ==
    <<[nombre |-> "juan", clave |-> "1234", rol |-> "Personal"],
      [nombre |-> "ana", clave |-> "claveSegura", rol |-> "Administrador"],
      [nombre |-> "carlos", clave |-> "gerente123", rol |-> "Gerente"]>>

(* The names and passwords a login form is posted with.                    *)
NombreInputs == {"juan", "ana", "carlos", "nadie"}
ClaveInputs == {"1234", "claveSegura", "gerente123"}

(* The protected routes and the actions requirePermisos is given for each  *)
(* (server.js 61-88); /dashboard has requireAuth only.                     *)
Acciones ==
    ("/dashboard" :> {}) @@ ("/lectura" :> {LECTURA}) @@ ("/edicion" :> {EDICION})
    @@ ("/aprobacion" :> {APROBACION}) @@ ("/decision" :> {DECISION})
    @@ ("/control" :> {CONTROL}) @@ ("/admin" :> {GESTION_TOTAL})

(* bcrypt.hash(clave, 10) and bcrypt.compare(entrada, hash) (server.js     *)
(* 114, authz.js 40-42): the hash holds its salt, and compare hashes the   *)
(* entry with the salt of the hash.                                        *)
BcryptHash(clave, salt) == <<"2a", 10, salt, clave>>
BcryptCompare(entrada, hash) == BcryptHash(entrada, hash[3]) = hash

(* req.session.user when the session holds no user.                        *)
NoUser == [nombreUsuario |-> "", rol |-> "", permisos |-> {}]
(* The null result of SistemaLogin.autenticar.                             *)
NoUsuario == ""

NoResponse ==
    [metodo |-> "", ruta |-> "", status |-> 0, location |-> "", handler |-> FALSE]

(* The application after app.listen and before seed() registers a user     *)
(* (server.js 28, 95-96, 118):                                             *)
(*   usuarios  SistemaLogin.#usuarios, nombre -> claveHash and rol         *)
(*   user      req.session.user of the one session                         *)
(*   loggedIn  the nombre of the last successful login of the session that *)
(*             no logout has followed, else NoUsuario                      *)
(*   requests  the number of requests answered                             *)
(*   response  the answer to the last request; handler tells whether the   *)
(*             handler of a protected route ran                            *)
RbacInitial ==
    [usuarios |-> [n \in {} |-> 0],
     user |-> NoUser,
     loggedIn |-> NoUsuario,
     requests |-> 0,
     response |-> NoResponse]

(* SistemaLogin.registrarUsuario (authz.js 50-52) with the Usuario seed()  *)
(* builds for the entry u (server.js 113-116).                             *)
RegistrarUsuario(usuarios, u, salt) ==
    (u.nombre :> [claveHash |-> BcryptHash(u.clave, salt), rol |-> u.rol])
    @@ [n \in DOMAIN usuarios \ {u.nombre} |-> usuarios[n]]

(* SistemaLogin.autenticar (authz.js 53-58): the nombre of the Usuario, or *)
(* NoUsuario for null.                                                     *)
Autenticar(usuarios, nombre, clave) ==
    IF nombre \notin DOMAIN usuarios THEN NoUsuario
    ELSE IF BcryptCompare(clave, usuarios[nombre].claveHash) THEN nombre
         ELSE NoUsuario

(* requireAuth (authz.js 3-6): TRUE when next() is called.                 *)
RequireAuth(user) == user # NoUser

(* Mutant of RequirePermisos: any permission opens every route.            *)
RequirePermisosAny(user, acciones) ==
    IF user = NoUser THEN "login"
    ELSE IF user.permisos # {} THEN "next" ELSE "403"

(* The middleware of requirePermisos(...acciones) (authz.js 8-17): "next"  *)
(* when next() is called, else the answer it gives.                        *)
RequirePermisos(user, acciones) ==
    IF user = NoUser THEN "login"
    ELSE LET permisos == user.permisos
             permitido == \A a \in acciones :
                              a \in permisos \/ GESTION_TOTAL \in permisos
         IN  IF permitido THEN "next" ELSE "403"

(* The answer to GET ruta for a protected route (server.js 61-88).         *)
GetProtected(user, ruta) ==
    IF ~RequireAuth(user)
    THEN [metodo |-> "GET", ruta |-> ruta, status |-> 302, location |-> "/login",
          handler |-> FALSE]
    ELSE LET paso == IF ruta = "/dashboard" THEN "next"
                     ELSE RequirePermisos(user, Acciones[ruta])
         IN  IF paso = "login"
             THEN [metodo |-> "GET", ruta |-> ruta, status |-> 302,
                   location |-> "/login", handler |-> FALSE]
             ELSE IF paso = "403"
                  THEN [metodo |-> "GET", ruta |-> ruta, status |-> 403,
                        location |-> "", handler |-> FALSE]
                  ELSE [metodo |-> "GET", ruta |-> ruta, status |-> 200,
                        location |-> "", handler |-> TRUE]

MapRemove(f, k) == [q \in DOMAIN f \ {k} |-> f[q]]

(* The data the functions of the simulator read and write, as one record.   *)
Cur ==
    [PID_COUNTER |-> PID_COUNTER, tickCount |-> tickCount,
     completedProcesses |-> completedProcesses, totalWaitTime |-> totalWaitTime,
     contextSwitches |-> contextSwitches,
     totalProcessesCreated |-> totalProcessesCreated,
     processStartTimes |-> processStartTimes, processes |-> processes,
     readyQueue |-> readyQueue, ioQueue |-> ioQueue, waitingForMem |-> waitingForMem,
     currentRunning |-> currentRunning, free |-> free, allocs |-> allocs]

Install(st) ==
    /\ PID_COUNTER' = st.PID_COUNTER
    /\ tickCount' = st.tickCount
    /\ completedProcesses' = st.completedProcesses
    /\ totalWaitTime' = st.totalWaitTime
    /\ contextSwitches' = st.contextSwitches
    /\ totalProcessesCreated' = st.totalProcessesCreated
    /\ processStartTimes' = st.processStartTimes
    /\ processes' = st.processes
    /\ readyQueue' = st.readyQueue
    /\ ioQueue' = st.ioQueue
    /\ waitingForMem' = st.waitingForMem
    /\ currentRunning' = st.currentRunning
    /\ free' = st.free
    /\ allocs' = st.allocs

(* new Process(memReq, cpuBurst) (script.js 41-51), pid aside.             *)
Process(memReq, cpuBurst) ==
    [memReq |-> memReq, totalCpu |-> cpuBurst, remainingCpu |-> cpuBurst,
     state |-> "Nuevo", memBlock |-> NoBlock, quantumLeft |-> TIME_QUANTUM,
     ioRemaining |-> 0]

(* Mutant of TryAllocateAndEnqueue: a process without memory is queued as *)
(* ready.                                                                  *)
TryAllocateAndEnqueueNoWait(st, pid) ==
    LET r == FirstFitAllocate(st.free, st.allocs, pid, st.processes[pid].memReq)
    IN  [st EXCEPT !.free = r.free, !.allocs = r.allocs,
                   !.processes[pid].memBlock = r.ret,
                   !.processes[pid].state = "Listo",
                   !.readyQueue = Append(@, pid)]

(* Mutant of TryAllocateAndEnqueue: a process that gets no memory is       *)
(* queued without its state being set.                                     *)
TryAllocateAndEnqueueStaysNew(st, pid) ==
    LET r == FirstFitAllocate(st.free, st.allocs, pid, st.processes[pid].memReq)
    IN  IF r.ret # NoBlock
        THEN [st EXCEPT !.free = r.free, !.allocs = r.allocs,
                        !.processes[pid].memBlock = r.ret,
                        !.processes[pid].state = "Listo",
                        !.readyQueue = Append(@, pid)]
        ELSE [st EXCEPT !.waitingForMem = Append(@, pid)]

(* tryAllocateAndEnqueue(proc) (script.js 277-290)                         *)
TryAllocateAndEnqueue(st, pid) ==
    LET r == FirstFitAllocate(st.free, st.allocs, pid, st.processes[pid].memReq)
    IN  IF r.ret # NoBlock
        THEN [st EXCEPT !.free = r.free, !.allocs = r.allocs,
                        !.processes[pid].memBlock = r.ret,
                        !.processes[pid].state = "Listo",
                        !.readyQueue = Append(@, pid)]
        ELSE [st EXCEPT !.processes[pid].state = "EsperandoMem",
                        !.waitingForMem = Append(@, pid)]

(* The body shared by maybeCreateRandomProcess, addRandomProcess and       *)
(* createManualProcess (script.js 255-261, 268-274, 1045-1051).            *)
CreateProcess(st, memReq, cpuBurst) ==
    LET pid == st.PID_COUNTER
        s1 == [st EXCEPT !.PID_COUNTER = @ + 1,
                         !.processes = (pid :> Process(memReq, cpuBurst)) @@ @,
                         !.processStartTimes = (pid :> st.tickCount) @@ @,
                         !.totalProcessesCreated = @ + 1]
    IN  TryAllocateAndEnqueue(s1, pid)

(* Mutant of ProgressIOFrom: a process leaves the I/O queue one tick early. *)
RECURSIVE ProgressIOFromEarly(_, _)
ProgressIOFromEarly(st, i) ==
    IF i = 0 THEN st
    ELSE LET pid == st.ioQueue[i]
         IN  IF pid \notin DOMAIN st.processes
             THEN ProgressIOFromEarly([st EXCEPT !.ioQueue = RemoveAt(@, i)], i - 1)
             ELSE LET left == st.processes[pid].ioRemaining - 1
                  IN  IF left <= 1
                      THEN ProgressIOFromEarly(
                               [st EXCEPT !.ioQueue = RemoveAt(@, i),
                                          !.processes[pid].ioRemaining = left,
                                          !.processes[pid].state = "Listo",
                                          !.processes[pid].quantumLeft = TIME_QUANTUM,
                                          !.readyQueue = Append(@, pid)], i - 1)
                      ELSE ProgressIOFromEarly(
                               [st EXCEPT !.processes[pid].ioRemaining = left], i - 1)

(* The I/O loop of tick (script.js 162-177), from index i down to 1.       *)
RECURSIVE ProgressIOFrom(_, _)
ProgressIOFrom(st, i) ==
    IF i = 0 THEN st
    ELSE LET pid == st.ioQueue[i]
         IN  IF pid \notin DOMAIN st.processes
             THEN ProgressIOFrom([st EXCEPT !.ioQueue = RemoveAt(@, i)], i - 1)
             ELSE LET left == st.processes[pid].ioRemaining - 1
                  IN  IF left <= 0
                      THEN ProgressIOFrom(
                               [st EXCEPT !.ioQueue = RemoveAt(@, i),
                                          !.processes[pid].ioRemaining = left,
                                          !.processes[pid].state = "Listo",
                                          !.processes[pid].quantumLeft = TIME_QUANTUM,
                                          !.readyQueue = Append(@, pid)], i - 1)
                      ELSE ProgressIOFrom(
                               [st EXCEPT !.processes[pid].ioRemaining = left], i - 1)

ProgressIO(st) == ProgressIOFrom(st, Len(st.ioQueue))

(* Mutant of Schedule: the head of the ready queue is dispatched whether   *)
(* or not the CPU is idle.                                                 *)
ScheduleBusy(st) ==
    IF Len(st.readyQueue) > 0
    THEN LET pid == Head(st.readyQueue)
         IN  [st EXCEPT !.readyQueue = Tail(@),
                        !.currentRunning = pid,
                        !.processes[pid].state = "Ejecutando",
                        !.processes[pid].quantumLeft = TIME_QUANTUM]
    ELSE st

(* Mutant of Schedule: the process enqueued last is dispatched.            *)
ScheduleLifo(st) ==
    IF st.currentRunning = NoPid /\ Len(st.readyQueue) > 0
    THEN LET pid == st.readyQueue[Len(st.readyQueue)]
         IN  [st EXCEPT !.readyQueue = SubSeq(@, 1, Len(@) - 1),
                        !.currentRunning = pid,
                        !.processes[pid].state = "Ejecutando",
                        !.processes[pid].quantumLeft = TIME_QUANTUM]
    ELSE IF st.currentRunning # NoPid /\ Len(st.readyQueue) = 0
         THEN [st EXCEPT !.processes[st.currentRunning].quantumLeft = TIME_QUANTUM]
         ELSE st

(* schedule() (script.js 321-346)                                          *)
(* Mutant of Schedule: the dispatched pid is not taken off readyQueue.    *)
ScheduleKeepsHead(st) ==
    IF st.currentRunning = NoPid /\ Len(st.readyQueue) > 0
    THEN LET pid == Head(st.readyQueue)
         IN  [st EXCEPT !.currentRunning = pid,
                        !.processes[pid].state = "Ejecutando",
                        !.processes[pid].quantumLeft = TIME_QUANTUM]
    ELSE IF st.currentRunning # NoPid /\ Len(st.readyQueue) = 0
         THEN [st EXCEPT !.processes[st.currentRunning].quantumLeft = TIME_QUANTUM]
         ELSE st

Schedule(st) ==
    IF st.currentRunning = NoPid /\ Len(st.readyQueue) > 0
    THEN LET pid == Head(st.readyQueue)
         IN  [st EXCEPT !.readyQueue = Tail(@),
                        !.currentRunning = pid,
                        !.processes[pid].state = "Ejecutando",
                        !.processes[pid].quantumLeft = TIME_QUANTUM]
    ELSE IF st.currentRunning # NoPid /\ Len(st.readyQueue) = 0
         THEN [st EXCEPT !.processes[st.currentRunning].quantumLeft = TIME_QUANTUM]
         ELSE st

(* The call memoryManager.alloc(pid, size) (script.js 237, 368): the class *)
(* MemoryManager defines no method alloc, so evaluating the call raises a  *)
(* TypeError.  TRUE: the call raises.                                      *)
AllocCallThrows == TRUE

(* The loop header and first statements shared by the memory retry of tick *)
(* (script.js 230-236) from index i down: stale entries are dropped until  *)
(* an entry of a live process is met, whose allocation call is evaluated.  *)
(* Result: the state and whether the loop raised.                          *)
RECURSIVE MemRetryFrom(_, _)
MemRetryFrom(st, i) ==
    IF i = 0 THEN [st |-> st, threw |-> FALSE]
    ELSE LET wpid == st.waitingForMem[i]
         IN  IF wpid \notin DOMAIN st.processes
             THEN MemRetryFrom([st EXCEPT !.waitingForMem = RemoveAt(@, i)], i - 1)
             ELSE IF AllocCallThrows
                  THEN [st |-> st, threw |-> TRUE]
                  ELSE MemRetryFrom(st, i - 1)

(* processMemoryQueue() (script.js 363-376): no stale check; the first     *)
(* iteration evaluates memoryManager.alloc.                                *)
ProcessMemoryQueue(st) ==
    IF Len(st.waitingForMem) = 0 THEN [st |-> st, threw |-> FALSE]
    ELSE [st |-> st, threw |-> AllocCallThrows]

(* Mutant of TerminateProcess: the wait time is counted from tick 0.       *)
TerminateProcessFromZero(st, pid) ==
    LET p == st.processes[pid]
        r == IF p.memBlock # NoBlock
             THEN FreeAlloc(st.free, st.allocs, pid)
             ELSE [free |-> st.free, allocs |-> st.allocs]
    IN  [st EXCEPT !.free = r.free, !.allocs = r.allocs,
                   !.completedProcesses = @ + 1,
                   !.totalWaitTime = @ + st.tickCount,
                   !.processes = MapRemove(@, pid),
                   !.processStartTimes = MapRemove(@, pid),
                   !.currentRunning = NoPid]

(* Mutant of TerminateProcess: the release is made by address, it frees    *)
(* whatever block starts where the block of the process started.           *)
TerminateProcessFreesRegion(st, pid) ==
    LET p == st.processes[pid]
        holders == {q \in DOMAIN st.allocs :
                       p.memBlock # NoBlock /\ st.allocs[q][1] = p.memBlock[1]}
        r == IF holders # {}
             THEN FreeAlloc(st.free, st.allocs, CHOOSE q \in holders : TRUE)
             ELSE [free |-> st.free, allocs |-> st.allocs]
        waitTime == st.tickCount - st.processStartTimes[pid]
    IN  [st EXCEPT !.free = r.free, !.allocs = r.allocs,
                   !.completedProcesses = @ + 1,
                   !.totalWaitTime = @ + waitTime,
                   !.processes = MapRemove(@, pid),
                   !.processStartTimes = MapRemove(@, pid),
                   !.currentRunning = NoPid]

(* Mutant of TerminateProcess: the process leaves the table uncounted.     *)
TerminateProcessUncounted(st, pid) ==
    LET p == st.processes[pid]
        r == IF p.memBlock # NoBlock
             THEN FreeAlloc(st.free, st.allocs, pid)
             ELSE [free |-> st.free, allocs |-> st.allocs]
        waitTime == st.tickCount - st.processStartTimes[pid]
    IN  [st EXCEPT !.free = r.free, !.allocs = r.allocs,
                   !.totalWaitTime = @ + waitTime,
                   !.processes = MapRemove(@, pid),
                   !.processStartTimes = MapRemove(@, pid),
                   !.currentRunning = NoPid]

(* terminateProcess(pid) (script.js 421-444) up to its call of             *)
(* processMemoryQueue.                                                     *)
TerminateProcess(st, pid) ==
    LET p == st.processes[pid]
        r == IF p.memBlock # NoBlock
             THEN FreeAlloc(st.free, st.allocs, pid)
             ELSE [free |-> st.free, allocs |-> st.allocs]
        waitTime == st.tickCount - st.processStartTimes[pid]
    IN  [st EXCEPT !.free = r.free, !.allocs = r.allocs,
                   !.completedProcesses = @ + 1,
                   !.totalWaitTime = @ + waitTime,
                   !.processes = MapRemove(@, pid),
                   !.processStartTimes = MapRemove(@, pid),
                   !.currentRunning = NoPid]

(* Mutant of PreemptOrContinue: the quantum is refreshed, never enforced.  *)
PreemptNever(st, pid) ==
    IF JsLeq(st.processes[pid].quantumLeft, 0) \/ Len(st.readyQueue) = 0
    THEN [st EXCEPT !.processes[pid].quantumLeft = TIME_QUANTUM]
    ELSE st

(* Mutant of PreemptOrContinue: the running process is preempted as soon   *)
(* as another one is ready, whatever is left of its quantum.               *)
PreemptEager(st, pid) ==
    IF Len(st.readyQueue) > 0
    THEN [st EXCEPT !.processes[pid].state = "Listo",
                    !.processes[pid].quantumLeft = TIME_QUANTUM,
                    !.readyQueue = Append(@, pid),
                    !.currentRunning = NoPid]
    ELSE [st EXCEPT !.processes[pid].quantumLeft = TIME_QUANTUM]

(* Mutant of PreemptOrContinue: the running process is preempted one tick  *)
(* after its quantum is exhausted.                                         *)
PreemptLate(st, pid) ==
    IF JsLt(st.processes[pid].quantumLeft, 0) /\ Len(st.readyQueue) > 0
    THEN [st EXCEPT !.processes[pid].state = "Listo",
                    !.processes[pid].quantumLeft = TIME_QUANTUM,
                    !.readyQueue = Append(@, pid),
                    !.currentRunning = NoPid]
    ELSE IF Len(st.readyQueue) = 0
         THEN [st EXCEPT !.processes[pid].quantumLeft = TIME_QUANTUM]
         ELSE st

(* The preemption check of tick (script.js 210-223) for the running        *)
(* process pid, which did not terminate.                                   *)
PreemptOrContinue(st, pid) ==
    IF JsLeq(st.processes[pid].quantumLeft, 0) /\ Len(st.readyQueue) > 0
    THEN [st EXCEPT !.processes[pid].state = "Listo",
                    !.processes[pid].quantumLeft = TIME_QUANTUM,
                    !.readyQueue = Append(@, pid),
                    !.currentRunning = NoPid]
    ELSE IF Len(st.readyQueue) = 0
         THEN [st EXCEPT !.processes[pid].quantumLeft = TIME_QUANTUM]
         ELSE st

(* Mutant of BlockForIO: the process gives its block back when it blocks.  *)
BlockForIOReleases(st, pid, d) ==
    LET r == FreeAlloc(st.free, st.allocs, pid)
    IN  [st EXCEPT !.processes[pid].state = "Bloqueado",
                   !.processes[pid].ioRemaining = d,
                   !.ioQueue = Append(@, pid),
                   !.currentRunning = NoPid,
                   !.free = r.free, !.allocs = r.allocs]

(* The I/O branch of tick (script.js 190-195): the running process blocks  *)
(* for d ticks.                                                            *)
BlockForIO(st, pid, d) ==
    [st EXCEPT !.processes[pid].state = "Bloqueado",
               !.processes[pid].ioRemaining = d,
               !.ioQueue = Append(@, pid),
               !.currentRunning = NoPid]

(* One unit of work (script.js 198-199).                                   *)
ExecuteOneTick(st, pid) ==
    [st EXCEPT !.processes[pid].remainingCpu = JsDec(@),
               !.processes[pid].quantumLeft = @ - 1]

(* index = indexOf(x); if (index > -1) splice(index, 1)                   *)
RemoveFirst(s, x) ==
    LET at == {i \in DOMAIN s : s[i] = x}
    IN  IF at = {} THEN s ELSE RemoveAt(s, CHOOSE i \in at : \A j \in at : i <= j)

(* Mutant of AwakenOne: the waiter is made ready without recording its     *)
(* block.                                                                  *)
AwakenOneNoBlock(st, wpid) ==
    IF wpid \notin DOMAIN st.processes
    THEN [st |-> [st EXCEPT !.waitingForMem = RemoveFirst(@, wpid)],
          goOn |-> TRUE]
    ELSE LET r == FirstFitAllocate(st.free, st.allocs, wpid, st.processes[wpid].memReq)
         IN  IF r.ret # NoBlock
             THEN [st |-> [st EXCEPT !.free = r.free, !.allocs = r.allocs,
                                     !.processes[wpid].state = "Listo",
                                     !.waitingForMem = RemoveFirst(@, wpid),
                                     !.readyQueue = Append(@, wpid)],
                   goOn |-> TRUE]
             ELSE [st |-> st, goOn |-> FALSE]

(* Mutant of AwakenOne: a waiter that does not fit is skipped and the loop *)
(* goes on.                                                                *)
AwakenOneSkip(st, wpid) ==
    IF wpid \notin DOMAIN st.processes
    THEN [st |-> [st EXCEPT !.waitingForMem = RemoveFirst(@, wpid)],
          goOn |-> TRUE]
    ELSE LET r == FirstFitAllocate(st.free, st.allocs, wpid, st.processes[wpid].memReq)
         IN  IF r.ret # NoBlock
             THEN [st |-> [st EXCEPT !.free = r.free, !.allocs = r.allocs,
                                     !.processes[wpid].memBlock = r.ret,
                                     !.processes[wpid].state = "Listo",
                                     !.waitingForMem = RemoveFirst(@, wpid),
                                     !.readyQueue = Append(@, wpid)],
                   goOn |-> TRUE]
             ELSE [st |-> st, goOn |-> TRUE]

(* One iteration of the loop of freeMemoryAndAwaken (script.js 299-318)    *)
(* on the waiter wpid: the state and whether the loop goes on.             *)
AwakenOne(st, wpid) ==
    IF wpid \notin DOMAIN st.processes
    THEN [st |-> [st EXCEPT !.waitingForMem = RemoveFirst(@, wpid)],
          goOn |-> TRUE]
    ELSE LET r == FirstFitAllocate(st.free, st.allocs, wpid, st.processes[wpid].memReq)
         IN  IF r.ret # NoBlock
             THEN [st |-> [st EXCEPT !.free = r.free, !.allocs = r.allocs,
                                     !.processes[wpid].memBlock = r.ret,
                                     !.processes[wpid].state = "Listo",
                                     !.waitingForMem = RemoveFirst(@, wpid),
                                     !.readyQueue = Append(@, wpid)],
                   goOn |-> TRUE]
             ELSE [st |-> st, goOn |-> FALSE]

(* calculateCPUUtilization() (script.js 815-833), the value updateGUI      *)
(* shows as cpuUtilization.                                                *)
CalculateCPUUtilization(st) ==
    IF st.tickCount = 0 THEN 0
    ELSE IF st.currentRunning # NoPid THEN 100
    ELSE IF Len(st.readyQueue) > 0 THEN 50
    ELSE 0

(***************************************************************************)
(* tick() (script.js 157-249) as functions of the state and of the random  *)
(* draws of the tick.                                                      *)
(***************************************************************************)
NoSpawn == <<>>
NoIO == 0
(* The outcomes of maybeCreateRandomProcess: none, or <<memReq, cpuBurst>>. *)
SpawnDraws == {NoSpawn} \cup (MemChoices \X BurstChoices)
(* The outcomes of the I/O trigger: none, or the duration drawn.           *)
IODraws == {NoIO} \cup IoChoices

(* tickCount++; maybeCreateRandomProcess() (script.js 158-159, 251-263)    *)
SpawnPhase(st, spawn) ==
    LET s0 == [st EXCEPT !.tickCount = @ + 1]
    IN  IF spawn = NoSpawn THEN s0 ELSE CreateProcess(s0, spawn[1], spawn[2])

(* Execute one tick for the running process (script.js 183-227), up to and *)
(* including the release at the head of freeMemoryAndAwaken (script.js     *)
(* 294) when the process terminates.                                       *)
ExecutePhase(st, io) ==
    LET pid == st.currentRunning
    IN  IF pid = NoPid THEN [st |-> st, terminating |-> FALSE]
        ELSE IF pid \notin DOMAIN st.processes
        THEN [st |-> [st EXCEPT !.currentRunning = NoPid], terminating |-> FALSE]
        ELSE IF io # NoIO
        THEN [st |-> BlockForIO(st, pid, io), terminating |-> FALSE]
        ELSE LET s1 == ExecuteOneTick(st, pid)
             IN  IF JsLeq(s1.processes[pid].remainingCpu, 0)
                 THEN LET r == FreeAlloc(s1.free, s1.allocs, pid)
                      IN  [st |-> [s1 EXCEPT !.free = r.free, !.allocs = r.allocs],
                           terminating |-> TRUE]
                 ELSE [st |-> PreemptOrContinue(s1, pid), terminating |-> FALSE]

(* The states at the end of the spawn, I/O, schedule and execute phases.   *)
TickPhases(st, spawn, io) ==
    LET p1 == SpawnPhase(st, spawn)
        p2 == ProgressIO(p1)
        p3 == Schedule(p2)
        p4 == ExecutePhase(p3, io)
    IN  [spawn |-> p1, io |-> p2, schedule |-> p3, execute |-> p4.st,
         terminating |-> p4.terminating]

(***************************************************************************)
(* Initial state (script.js 18-38, 60-66).                                 *)
(***************************************************************************)
Init ==
    /\ PID_COUNTER = 1
    /\ tickCount = 0
    /\ isRunning = FALSE
    /\ timers = 0
    /\ tickInterval = "null"
    /\ completedProcesses = 0
    /\ totalWaitTime = 0
    /\ contextSwitches = 0
    /\ totalProcessesCreated = 0
    /\ processStartTimes = EmptyMap
    /\ processes = EmptyMap
    /\ readyQueue = <<>>
    /\ ioQueue = <<>>
    /\ waitingForMem = <<>>
    /\ currentRunning = NoPid
    /\ free = <<<<0, MEM_TOTAL>>>>
    /\ allocs = EmptyMap
    /\ pc = "idle"
    /\ toTry = <<>>
    /\ fault = FALSE
    /\ guiUpdates = 0
    /\ lastCall = [op |-> "none", pid |-> NoPid, size |-> 0, ret |-> NoBlock]
    /\ rbac = RbacInitial

(***************************************************************************)
(* Actions.  JavaScript runs a handler to completion, so a handler starts  *)
(* only when pc = "idle".  A tick in which the running process terminates  *)
(* is shown in steps: up to the release of its block (pc = "awaken"), one  *)
(* step per iteration of the loop of freeMemoryAndAwaken, and the rest of  *)
(* the tick (pc = "terminate"); any other tick is one step.                *)
(***************************************************************************)
TickWith(maxTicks, maxPid, spawnDraws, ioDraws) ==
    /\ pc = "idle"
    /\ tickCount < maxTicks
    /\ \E spawn \in spawnDraws, io \in ioDraws :
          /\ spawn # NoSpawn => PID_COUNTER <= maxPid
          /\ LET ph == TickPhases(Cur, spawn, io)
             IN  IF ph.terminating
                 THEN /\ Install(ph.execute)
                      /\ toTry' = ph.execute.waitingForMem
                      /\ pc' = "awaken"
                      /\ fault' = FALSE
                      /\ guiUpdates' = 0
                 ELSE LET r == MemRetryFrom(ph.execute, Len(ph.execute.waitingForMem))
                      IN  /\ Install(r.st)
                          /\ toTry' = toTry
                          /\ pc' = "idle"
                          /\ fault' = r.threw
                          /\ guiUpdates' = IF r.threw THEN 0 ELSE 1
    /\ UNCHANGED <<isRunning, timers, tickInterval, lastCall, rbac>>

(* An interval set by toggleSimulation calls tick (script.js 964).         *)
TimerTick == timers > 0 /\ TickWith(MaxTicks, MaxPid, SpawnDraws, IODraws)

(* singleTick() (script.js 985-989)                                        *)
SingleTick == ~isRunning /\ TickWith(MaxTicks, MaxPid, SpawnDraws, IODraws)

(* Mutant of AwakenStep: the waiters are tried from the tail.              *)
AwakenStepLifo ==
    /\ pc = "awaken"
    /\ IF toTry = <<>>
       THEN /\ pc' = "terminate"
            /\ toTry' = <<>>
            /\ Install(Cur)
       ELSE LET r == AwakenOne(Cur, toTry[Len(toTry)])
            IN  /\ Install(r.st)
                /\ IF r.goOn
                   THEN toTry' = SubSeq(toTry, 1, Len(toTry) - 1) /\ pc' = "awaken"
                   ELSE toTry' = <<>> /\ pc' = "terminate"
    /\ UNCHANGED <<isRunning, timers, tickInterval, fault, guiUpdates, lastCall, rbac>>

(* One iteration of for (const wpid of toTry) (script.js 299-318), or the  *)
(* end of the loop.                                                        *)
AwakenStep ==
    /\ pc = "awaken"
    /\ IF toTry = <<>>
       THEN /\ pc' = "terminate"
            /\ toTry' = <<>>
            /\ Install(Cur)
       ELSE LET r == AwakenOne(Cur, Head(toTry))
            IN  /\ Install(r.st)
                /\ IF r.goOn
                   THEN toTry' = Tail(toTry) /\ pc' = "awaken"
                   ELSE toTry' = <<>> /\ pc' = "terminate"
    /\ UNCHANGED <<isRunning, timers, tickInterval, fault, guiUpdates, lastCall, rbac>>

(* The rest of a tick after freeMemoryAndAwaken: currentRunning = null,    *)
(* terminateProcess(p.pid), which ends with processMemoryQueue(), then the *)
(* memory retry and updateGUI (script.js 206-208, 229-248).  An exception  *)
(* ends the tick where it is raised.                                       *)
TickFinish ==
    /\ pc = "terminate"
    /\ LET pid == currentRunning
           s1 == TerminateProcess([Cur EXCEPT !.currentRunning = NoPid], pid)
           r1 == ProcessMemoryQueue(s1)
           r2 == IF r1.threw THEN r1 ELSE MemRetryFrom(r1.st, Len(r1.st.waitingForMem))
       IN  /\ Install(r2.st)
           /\ fault' = r2.threw
           /\ guiUpdates' = IF r2.threw THEN 0 ELSE 1
    /\ pc' = "idle"
    /\ UNCHANGED <<isRunning, timers, tickInterval, toTry, lastCall, rbac>>

(* clearInterval(h) (script.js 970, 993, 1254, 1300): the number of        *)
(* intervals still set when n were, and what the handle h then refers to.  *)
ClearInterval(n, h) == IF h = "live" THEN n - 1 ELSE n

AfterClear(h) == IF h = "live" THEN "cleared" ELSE h

(* Mutant of ToggleSimulation: starting the driver creates a process.      *)
ToggleSimulationSpawns ==
    /\ pc = "idle"
    /\ isRunning' = ~isRunning
    /\ timers' = IF isRunning THEN ClearInterval(timers, tickInterval) ELSE timers + 1
    /\ tickInterval' = IF isRunning THEN "null" ELSE "live"
    /\ IF ~isRunning /\ PID_COUNTER <= MaxPid
       THEN Install(CreateProcess(Cur, MAX_PROC_MEM, MIN_CPU_BURST))
       ELSE Install(Cur)
    /\ fault' = FALSE
    /\ guiUpdates' = 0
    /\ UNCHANGED <<pc, toTry, lastCall, rbac>>

(* toggleSimulation() (script.js 952-974); createInitialProcesses creates  *)
(* no process (script.js 976-983).                                         *)
ToggleSimulation ==
    /\ pc = "idle"
    /\ IF ~isRunning
       THEN /\ isRunning' = TRUE
            /\ timers' = timers + 1
            /\ tickInterval' = "live"
       ELSE /\ isRunning' = FALSE
            /\ IF tickInterval # "null"
               THEN /\ timers' = ClearInterval(timers, tickInterval)
                    /\ tickInterval' = "null"
               ELSE UNCHANGED <<timers, tickInterval>>
    /\ fault' = FALSE
    /\ guiUpdates' = 0
    /\ UNCHANGED <<PID_COUNTER, tickCount, completedProcesses, totalWaitTime,
                   contextSwitches, totalProcessesCreated, processStartTimes, processes,
                   readyQueue, ioQueue, waitingForMem, currentRunning, free, allocs, pc,
                   toTry, lastCall, rbac>>

(* The input handlers of the two tick-speed sliders (script.js 1251-1257,  *)
(* 1294-1303): while the driver runs the interval is replaced by one of    *)
(* the new period.                                                         *)
ChangeTickSpeed ==
    /\ pc = "idle"
    /\ IF isRunning /\ tickInterval # "null"
       THEN /\ timers' = ClearInterval(timers, tickInterval) + 1
            /\ tickInterval' = "live"
       ELSE UNCHANGED <<timers, tickInterval>>
    /\ fault' = FALSE
    /\ guiUpdates' = 0
    /\ UNCHANGED <<PID_COUNTER, tickCount, isRunning, completedProcesses,
                   totalWaitTime, contextSwitches, totalProcessesCreated,
                   processStartTimes, processes, readyQueue, ioQueue, waitingForMem,
                   currentRunning, free, allocs, pc, toTry, lastCall, rbac>>

(* Mutant of ResetSimulation: the interval of the driver is not cleared.   *)
ResetSimulationKeepsTimer ==
    /\ pc = "idle"
    /\ isRunning' = FALSE
    /\ UNCHANGED <<timers, tickInterval>>
    /\ processes' = EmptyMap
    /\ readyQueue' = <<>>
    /\ ioQueue' = <<>>
    /\ waitingForMem' = <<>>
    /\ currentRunning' = NoPid
    /\ tickCount' = 0
    /\ completedProcesses' = 0
    /\ totalWaitTime' = 0
    /\ contextSwitches' = 0
    /\ totalProcessesCreated' = 0
    /\ processStartTimes' = EmptyMap
    /\ PID_COUNTER' = 1
    /\ allocs' = EmptyMap
    /\ free' = <<<<0, MEM_TOTAL>>>>
    /\ fault' = FALSE
    /\ guiUpdates' = 1
    /\ UNCHANGED <<pc, toTry, lastCall, rbac>>

(* Mutant of ResetSimulation: the pid counter and the allocator are not   *)
(* reset.                                                                  *)
ResetSimulationPartial ==
    /\ pc = "idle"
    /\ isRunning' = FALSE
    /\ timers' = ClearInterval(timers, tickInterval)
    /\ tickInterval' = AfterClear(tickInterval)
    /\ processes' = EmptyMap
    /\ readyQueue' = <<>>
    /\ ioQueue' = <<>>
    /\ waitingForMem' = <<>>
    /\ currentRunning' = NoPid
    /\ tickCount' = 0
    /\ completedProcesses' = 0
    /\ totalWaitTime' = 0
    /\ contextSwitches' = 0
    /\ totalProcessesCreated' = 0
    /\ processStartTimes' = EmptyMap
    /\ fault' = FALSE
    /\ guiUpdates' = 1
    /\ UNCHANGED <<PID_COUNTER, allocs, free, pc, toTry, lastCall, rbac>>

(* resetSimulation() (script.js 991-1029)                                  *)
ResetSimulation ==
    /\ pc = "idle"
    /\ isRunning' = FALSE
    /\ timers' = ClearInterval(timers, tickInterval)
    /\ tickInterval' = AfterClear(tickInterval)
    /\ processes' = EmptyMap
    /\ readyQueue' = <<>>
    /\ ioQueue' = <<>>
    /\ waitingForMem' = <<>>
    /\ currentRunning' = NoPid
    /\ tickCount' = 0
    /\ completedProcesses' = 0
    /\ totalWaitTime' = 0
    /\ contextSwitches' = 0
    /\ totalProcessesCreated' = 0
    /\ processStartTimes' = EmptyMap
    /\ PID_COUNTER' = 1
    /\ allocs' = EmptyMap
    /\ free' = <<<<0, MEM_TOTAL>>>>
    /\ fault' = FALSE
    /\ guiUpdates' = 1
    /\ UNCHANGED <<pc, toTry, lastCall, rbac>>

(* Mutant of ManualRejected: only the lower limits are checked.            *)
ManualRejectedLow(memReq, cpuBurst) ==
    JsLt(memReq, MIN_PROC_MEM) \/ JsLt(cpuBurst, MIN_CPU_BURST)

(* The two range checks of createManualProcess (script.js 1035, 1040):     *)
(* TRUE when the handler returns before creating anything.                 *)
ManualRejected(memReq, cpuBurst) ==
    \/ JsLt(memReq, MIN_PROC_MEM) \/ JsGt(memReq, MAX_PROC_MEM)
    \/ JsLt(cpuBurst, MIN_CPU_BURST) \/ JsGt(cpuBurst, MAX_CPU_BURST)

(* createManualProcess() (script.js 1031-1054) with the form fields parsed *)
(* to memReq and cpuBurst.                                                 *)
CreateManualInput(memReq, cpuBurst) ==
    /\ pc = "idle"
    /\ IF ManualRejected(memReq, cpuBurst)
       THEN Install(Cur) /\ guiUpdates' = 0
       ELSE Install(CreateProcess(Cur, memReq, cpuBurst)) /\ guiUpdates' = 1
    /\ fault' = FALSE
    /\ UNCHANGED <<isRunning, timers, tickInterval, pc, toTry, lastCall, rbac>>

(* createManualProcess() on any of the given inputs.                       *)
CreateManualWith(maxPid, memInputs, burstInputs) ==
    /\ PID_COUNTER <= maxPid
    /\ \E memReq \in memInputs, cpuBurst \in burstInputs :
           CreateManualInput(memReq, cpuBurst)

CreateManualProcess == CreateManualWith(MaxPid, ManualMemInputs, ManualBurstInputs)

(* addRandomProcess() (script.js 265-275)                                  *)
AddRandomWith(maxPid, mems, bursts) ==
    /\ pc = "idle"
    /\ PID_COUNTER <= maxPid
    /\ \E memReq \in mems, cpuBurst \in bursts :
           Install(CreateProcess(Cur, memReq, cpuBurst))
    /\ fault' = FALSE
    /\ guiUpdates' = 0
    /\ UNCHANGED <<isRunning, timers, tickInterval, pc, toTry, lastCall, rbac>>

AddRandomProcess == AddRandomWith(MaxPid, MemChoices, BurstChoices)

(***************************************************************************)
(* The simulator with every handler and every draw.                        *)
(***************************************************************************)
Next ==
    \/ TimerTick
    \/ SingleTick
    \/ AwakenStep
    \/ TickFinish
    \/ ToggleSimulation
    \/ ResetSimulation
    \/ ChangeTickSpeed
    \/ CreateManualProcess
    \/ AddRandomProcess

Spec == Init /\ [][Next]_vars

(***************************************************************************)
(* The simulator under memory contention: IO_PROB = 0, up to MemMaxPid     *)
(* processes of the shortest burst and of four request sizes.              *)
(***************************************************************************)
MemSpawnDraws == {NoSpawn} \cup (MemMemChoices \X MemBurstChoices)

MemTimerTick == timers > 0 /\ TickWith(MemMaxTicks, MemMaxPid, MemSpawnDraws, {NoIO})

MemSingleTick == ~isRunning /\ TickWith(MemMaxTicks, MemMaxPid, MemSpawnDraws, {NoIO})

MemCreateManualProcess ==
    CreateManualWith(MemMaxPid, MemManualMemInputs, MemManualBurstInputs)

MemAddRandomProcess == AddRandomWith(MemMaxPid, MemMemChoices, MemBurstChoices)

NextMem ==
    \/ MemTimerTick
    \/ MemSingleTick
    \/ AwakenStep
    \/ TickFinish
    \/ ToggleSimulation
    \/ ResetSimulation
    \/ MemCreateManualProcess
    \/ MemAddRandomProcess

SpecMem == Init /\ [][NextMem]_vars

(***************************************************************************)
(* The simulator with NEW_PROC_PROB = 0 and IO_PROB = 0: nothing is        *)
(* spawned by tick and the I/O trigger never fires (Math.random() < 0).    *)
(***************************************************************************)
QuantumTimerTick ==
    timers > 0 /\ TickWith(QuantumMaxTicks, QuantumMaxPid, {NoSpawn}, {NoIO})

QuantumSingleTick ==
    ~isRunning /\ TickWith(QuantumMaxTicks, QuantumMaxPid, {NoSpawn}, {NoIO})

QuantumCreateManualProcess ==
    CreateManualWith(QuantumMaxPid, QuantumManualMemInputs, QuantumManualBurstInputs)

NextQuantum ==
    \/ QuantumTimerTick
    \/ QuantumSingleTick
    \/ AwakenStep
    \/ TickFinish
    \/ ToggleSimulation
    \/ ResetSimulation
    \/ QuantumCreateManualProcess

SpecQuantum == Init /\ [][NextQuantum]_vars

(***************************************************************************)
(* The simulator with NEW_PROC_PROB = 0 and IO_PROB = 0 and up to          *)
(* WaitMaxPid processes created through the manual form, enough for two    *)
(* processes to wait for memory behind two that hold it.                   *)
(***************************************************************************)
WaitTimerTick ==
    timers > 0 /\ TickWith(WaitMaxTicks, WaitMaxPid, {NoSpawn}, {NoIO})

WaitSingleTick ==
    ~isRunning /\ TickWith(WaitMaxTicks, WaitMaxPid, {NoSpawn}, {NoIO})

WaitCreateManualProcess ==
    CreateManualWith(WaitMaxPid, WaitManualMemInputs, WaitManualBurstInputs)

NextWait ==
    \/ WaitTimerTick
    \/ WaitSingleTick
    \/ AwakenStep
    \/ TickFinish
    \/ ToggleSimulation
    \/ ResetSimulation
    \/ WaitCreateManualProcess

SpecWait == Init /\ [][NextWait]_vars

(***************************************************************************)
(* The simulator with NEW_PROC_PROB = 0 and an I/O trigger that can fire   *)
(* in any tick, for one of two durations, on up to BlockMaxPid processes   *)
(* created through the manual form.                                        *)
(***************************************************************************)
BlockIODraws == {NoIO} \cup BlockIoChoices

BlockTimerTick ==
    timers > 0 /\ TickWith(BlockMaxTicks, BlockMaxPid, {NoSpawn}, BlockIODraws)

BlockSingleTick ==
    ~isRunning /\ TickWith(BlockMaxTicks, BlockMaxPid, {NoSpawn}, BlockIODraws)

BlockCreateManualProcess ==
    CreateManualWith(BlockMaxPid, BlockManualMemInputs, BlockManualBurstInputs)

NextBlock ==
    \/ BlockTimerTick
    \/ BlockSingleTick
    \/ AwakenStep
    \/ TickFinish
    \/ ToggleSimulation
    \/ ResetSimulation
    \/ BlockCreateManualProcess

SpecBlock == Init /\ [][NextBlock]_vars

(***************************************************************************)
(* The simulator that is left to drain: processes are created through the  *)
(* manual form and the I/O trigger can fire before tick DrainQuiet only,   *)
(* and ticks keep coming: an interval that is set calls tick again and     *)
(* again (script.js 964), a tick runs to its end, and while the driver is  *)
(* paused the user keeps stepping.                                         *)
(***************************************************************************)
DrainIODraws == IF tickCount < DrainQuiet THEN BlockIODraws ELSE {NoIO}

DrainTimerTick ==
    timers > 0 /\ TickWith(DrainMaxTicks, DrainMaxPid, {NoSpawn}, DrainIODraws)

DrainSingleTick ==
    ~isRunning /\ TickWith(DrainMaxTicks, DrainMaxPid, {NoSpawn}, DrainIODraws)

DrainCreateManualProcess ==
    /\ tickCount < DrainQuiet
    /\ CreateManualWith(DrainMaxPid, DrainManualMemInputs, DrainManualBurstInputs)

NextDrain ==
    \/ DrainTimerTick
    \/ DrainSingleTick
    \/ AwakenStep
    \/ TickFinish
    \/ ToggleSimulation
    \/ DrainCreateManualProcess

(* The steps of NextDrain that start a tick: tickCount++ (script.js 158)   *)
(* is done by tick only.  Between two handlers, and below the bound, one   *)
(* of the two drivers can always take such a step.                         *)
DrainTickStarts ==
    /\ pc = "idle"
    /\ tickCount < DrainMaxTicks
    /\ tickCount' = tickCount + 1

SpecDrain ==
    /\ Init
    /\ [][NextDrain]_vars
    /\ WF_tickCount(DrainTickStarts)
    /\ WF_vars(AwakenStep)
    /\ WF_vars(TickFinish)

(***************************************************************************)
(* The MemoryManager on its own: any sequence of calls of its two methods, *)
(* for pids 1..MemMaxPid and the sizes a process can ask for.              *)
(***************************************************************************)
MMAllocate ==
    /\ \E pid \in 1..MemMaxPid, size \in MemMemChoices \cup {NaN} :
           LET r == FirstFitAllocate(free, allocs, pid, size)
           IN  /\ free' = r.free
               /\ allocs' = r.allocs
               /\ lastCall' = [op |-> "firstFitAllocate", pid |-> pid, size |-> size,
                               ret |-> r.ret]
    /\ UNCHANGED <<simVars, rbac>>

MMFree ==
    /\ \E pid \in 1..MemMaxPid :
           LET r == FreeAlloc(free, allocs, pid)
           IN  /\ free' = r.free
               /\ allocs' = r.allocs
               /\ lastCall' = [op |-> "freeAlloc", pid |-> pid, size |-> 0,
                               ret |-> NoBlock]
    /\ UNCHANGED <<simVars, rbac>>

NextMM == MMAllocate \/ MMFree

SpecMM == Init /\ [][NextMM]_vars

(***************************************************************************)
(* The web application: seed() registers its users one at a time while the *)
(* server already answers, and one browser session posts logins and        *)
(* logouts and gets pages, up to RbacMaxRequests requests.  The session    *)
(* can expire between two requests (cookie maxAge, server.js 23).          *)
(***************************************************************************)
Frame == UNCHANGED <<simVars, free, allocs, lastCall>>

Answer(resp) == [rbac EXCEPT !.requests = @ + 1, !.response = resp]

(* One turn of the loop of seed() (server.js 113-116).                     *)
Seed ==
    /\ Len(SeedUsuarios) > Cardinality(DOMAIN rbac.usuarios)
    /\ LET n == Cardinality(DOMAIN rbac.usuarios) + 1
       IN  rbac' = [rbac EXCEPT
                       !.usuarios = RegistrarUsuario(@, SeedUsuarios[n], n)]
    /\ Frame

(* app.post('/login') (server.js 45-55)                                    *)
PostLogin ==
    /\ rbac.requests < RbacMaxRequests
    /\ \E nombre \in NombreInputs, clave \in ClaveInputs :
           LET usuario == Autenticar(rbac.usuarios, nombre, clave)
           IN  IF usuario = NoUsuario
               THEN rbac' = Answer([metodo |-> "POST", ruta |-> "/login",
                                    status |-> 401, location |-> "",
                                    handler |-> FALSE])
               ELSE rbac' = [Answer([metodo |-> "POST", ruta |-> "/login",
                                     status |-> 302, location |-> "/dashboard",
                                     handler |-> FALSE])
                                EXCEPT !.user =
                                           [nombreUsuario |-> usuario,
                                            rol |-> rbac.usuarios[usuario].rol,
                                            permisos |->
                                                Roles[rbac.usuarios[usuario].rol]],
                                       !.loggedIn = usuario]
    /\ Frame

(* app.post('/logout') (server.js 57-59)                                   *)
PostLogout ==
    /\ rbac.requests < RbacMaxRequests
    /\ rbac' = [Answer([metodo |-> "POST", ruta |-> "/logout", status |-> 302,
                        location |-> "/login", handler |-> FALSE])
                   EXCEPT !.user = NoUser, !.loggedIn = NoUsuario]
    /\ Frame

(* app.get of a protected route (server.js 61-88)                          *)
GetRoute ==
    /\ rbac.requests < RbacMaxRequests
    /\ \E ruta \in DOMAIN Acciones :
           rbac' = Answer(GetProtected(rbac.user, ruta))
    /\ Frame

(* app.get('/') and app.get('/login') (server.js 36-43)                    *)
GetPublic ==
    /\ rbac.requests < RbacMaxRequests
    /\ \/ rbac' = Answer([metodo |-> "GET", ruta |-> "/", status |-> 302,
                          location |-> IF rbac.user # NoUser
                                       THEN "/dashboard" ELSE "/login",
                          handler |-> FALSE])
       \/ rbac' = Answer([metodo |-> "GET", ruta |-> "/login", status |-> 200,
                          location |-> "", handler |-> FALSE])
    /\ Frame

(* The session is dropped when its cookie is older than maxAge             *)
(* (server.js 23).                                                         *)
SessionExpires ==
    /\ rbac.user # NoUser
    /\ rbac' = [rbac EXCEPT !.user = NoUser]
    /\ Frame

NextRbac ==
    \/ Seed
    \/ PostLogin
    \/ PostLogout
    \/ GetRoute
    \/ GetPublic
    \/ SessionExpires

SpecRbac == Init /\ [][NextRbac]_vars

(***************************************************************************)
(* Claims about the MemoryManager, checked under SpecMM.                   *)
(***************************************************************************)

(* C1: after every call of firstFitAllocate or freeAlloc, freeSpace() plus *)
(* the sum of the sizes of the blocks in allocs equals total.              *)
C1_Conservation == FreeSpace(free) + UsedSpace(allocs) = MEM_TOTAL

(* C2: after every freeAlloc and every firstFitAllocate the free list is   *)
(* sorted by ascending start and no two free intervals, anywhere in the    *)
(* list, are adjacent.                                                     *)
C2_Coalesced ==
    /\ \A i, j \in DOMAIN free : i < j => free[i][1] < free[j][1]
    /\ \A i, j \in DOMAIN free : i # j => free[i][1] + free[i][2] # free[j][1]

C2_Witness ==
    /\ lastCall.op = "freeAlloc"
    /\ Len(free) >= 2
    /\ DOMAIN allocs # {}

(* The allocated blocks and the free intervals, each tagged with its       *)
(* owner so that equal intervals stay apart.                               *)
Intervals ==
    {<<"alloc", p, allocs[p][1], allocs[p][2]>> : p \in DOMAIN allocs}
        \cup {<<"free", i, free[i][1], free[i][2]>> : i \in DOMAIN free}

(* C3: in every reachable allocator state the allocated blocks and the     *)
(* free intervals are pairwise disjoint and lie inside [0, total).         *)
C3_NoOverlap ==
    /\ \A x \in Intervals : x[3] >= 0 /\ x[4] > 0 /\ x[3] + x[4] <= MEM_TOTAL
    /\ \A x, y \in Intervals :
           x # y => (x[3] + x[4] <= y[3] \/ y[3] + y[4] <= x[3])

C3_Witness ==
    /\ Cardinality(DOMAIN allocs) >= 2
    /\ Len(free) >= 2

(* C4: firstFitAllocate(pid, size) returns the block that starts where the *)
(* lowest-address free interval with size_i >= size starts (null when      *)
(* there is none); an interval of exactly that size leaves the free list,  *)
(* a larger one is shrunk from the front, every other free interval stays  *)
(* as it was.                                                              *)
C4_FirstFit ==
    [][lastCall'.op = "firstFitAllocate" =>
          LET size == lastCall'.size
              fits == {i \in DOMAIN free : size # NaN /\ free[i][2] >= size}
          IN  IF fits = {}
              THEN lastCall'.ret = NoBlock /\ free' = free /\ allocs' = allocs
              ELSE LET i == CHOOSE k \in fits : \A m \in fits : free[k][1] <= free[m][1]
                       rest == {free[k] : k \in DOMAIN free \ {i}}
                   IN  /\ lastCall'.ret = <<free[i][1], size>>
                       /\ allocs'[lastCall'.pid] = <<free[i][1], size>>
                       /\ free[i][2] = size => Range(free') = rest
                       /\ free[i][2] > size =>
                              Range(free') =
                                  rest \cup {<<free[i][1] + size, free[i][2] - size>>}
                       /\ Len(free') = Cardinality(Range(free'))]_vars

(* A block was handed out above a free interval that was too small.        *)
C4_Witness ==
    /\ lastCall.op = "firstFitAllocate"
    /\ lastCall.ret # NoBlock
    /\ \E i \in DOMAIN free : free[i][1] < lastCall.ret[1]

(***************************************************************************)
(* Claims about memory and the waiting queue, checked under SpecMem.       *)
(***************************************************************************)
Fits(fr, size) == \E i \in DOMAIN fr : size # NaN /\ fr[i][2] >= size

(* C5: when no free interval has size >= the request, firstFitAllocate     *)
(* returns null and leaves the free list and allocs as they were, and the  *)
(* process being created goes to the tail of waitingForMem in state        *)
(* EsperandoMem.                                                           *)
C5_ExhaustionRoutesToWait ==
    [][PID_COUNTER' = PID_COUNTER + 1 =>
          LET pid == PID_COUNTER
              req == processes'[pid].memReq
              r == FirstFitAllocate(free, allocs, pid, req)
          IN  ~Fits(free, req) =>
                  /\ r.ret = NoBlock /\ r.free = free /\ r.allocs = allocs
                  /\ waitingForMem' = Append(waitingForMem, pid)
                  /\ processes'[pid].state = "EsperandoMem"
                  /\ processes'[pid].memBlock = NoBlock
                  /\ pid \notin DOMAIN allocs'
                  /\ pid \notin Range(readyQueue')
                  /\ pc' = "idle" => free' = free /\ allocs' = allocs]_vars

(* The process created last asked for a size no interval could hold.       *)
C5_Witness ==
    /\ pc = "idle"
    /\ waitingForMem # <<>>
    /\ LET w == waitingForMem[Len(waitingForMem)]
       IN  /\ w = PID_COUNTER - 1
           /\ processes[w].state = "EsperandoMem"
           /\ processes[w].memReq # NaN
           /\ ~Fits(free, processes[w].memReq)

(* The allocator states of the scenario.                                   *)
C6_AllocsP1 == 1 :> <<0, 40>>
C6_AllocsP1P2 == (1 :> <<0, 40>>) @@ (2 :> <<40, 50>>)
C6_AllocsFinal == (2 :> <<40, 50>>) @@ (3 :> <<0, 20>>)
C6_FreeFinal == <<<<20, 20>>, <<90, 10>>>>

(* A process asking for m is created and the handler or tick ends.         *)
C6_Created(m) ==
    /\ PID_COUNTER' = PID_COUNTER + 1
    /\ processes'[PID_COUNTER].memReq = m
    /\ pc' = "idle"

(* C6: with capacity 100, P1 (40) gets (0,40), P2 (50) gets (40,50), P3    *)
(* (20) fails and waits; releasing P1 leaves free = [(0,40),(90,10)],      *)
(* unmerged, and the retry of the waiters ends with allocations            *)
(* {P2:(40,50), P3:(0,20)}, free = [(20,20),(90,10)] and freeSpace = 30.   *)
C6_Scenario ==
    [][/\ (PID_COUNTER = 1 /\ allocs = EmptyMap /\ free = <<<<0, 100>>>>
              /\ C6_Created(40))
          => (allocs' = C6_AllocsP1 /\ free' = <<<<40, 60>>>>)
       /\ (PID_COUNTER = 2 /\ allocs = C6_AllocsP1 /\ free = <<<<40, 60>>>>
              /\ C6_Created(50))
          => (allocs' = C6_AllocsP1P2 /\ free' = <<<<90, 10>>>>)
       /\ (PID_COUNTER = 3 /\ allocs = C6_AllocsP1P2 /\ free = <<<<90, 10>>>>
              /\ waitingForMem = <<>> /\ C6_Created(20))
          => (allocs' = allocs /\ free' = free /\ waitingForMem' = <<3>>
                 /\ processes'[3].state = "EsperandoMem")
       /\ (pc = "idle" /\ allocs = C6_AllocsP1P2 /\ free = <<<<90, 10>>>>
              /\ waitingForMem = <<3>> /\ processes[3].memReq = 20
              /\ PID_COUNTER' = PID_COUNTER
              /\ pc' = "awaken" /\ currentRunning' = 1)
          => (free' = <<<<0, 40>>, <<90, 10>>>> /\ allocs' = 2 :> <<40, 50>>
                 /\ toTry' = <<3>> /\ waitingForMem' = <<3>>)
       /\ (pc = "awaken" /\ currentRunning = 1 /\ toTry = <<3>> /\ waitingForMem = <<3>>
              /\ processes[3].memReq = 20
              /\ free = <<<<0, 40>>, <<90, 10>>>> /\ allocs = 2 :> <<40, 50>>)
          => (allocs' = C6_AllocsFinal /\ free' = C6_FreeFinal
                 /\ FreeSpace(free') = 30 /\ waitingForMem' = <<>>
                 /\ processes'[3].memBlock = <<0, 20>>
                 /\ processes'[3].state = "Listo")
       /\ (pc = "terminate" /\ currentRunning = 1 /\ allocs = C6_AllocsFinal
              /\ free = C6_FreeFinal)
          => (allocs' = C6_AllocsFinal /\ free' = C6_FreeFinal
                 /\ FreeSpace(free') = 30 /\ 1 \notin DOMAIN processes')]_vars

(* The end of the scenario: P1 is gone, P2 and P3 hold their blocks.       *)
C6_Witness ==
    /\ pc = "idle"
    /\ completedProcesses = 1
    /\ DOMAIN processes = {2, 3}
    /\ processes[2].memReq = 50 /\ processes[3].memReq = 20
    /\ allocs = C6_AllocsFinal
    /\ free = C6_FreeFinal

(***************************************************************************)
(* Claim about the scheduler, checked under Spec.                          *)
(***************************************************************************)
Running(st) == {p \in DOMAIN st.processes : st.processes[p].state = "Ejecutando"}

SingleRunning(st) ==
    /\ Cardinality(Running(st)) <= 1
    /\ st.currentRunning = NoPid \/ st.currentRunning \in DOMAIN st.processes

(* C7: at the end of every phase of every tick at most one process of the  *)
(* table is in state Ejecutando, and currentRunning is none or one pid of  *)
(* the table.  The phases are those of every tick that can start in the    *)
(* current state.                                                          *)
C7_SingleRunning ==
    /\ SingleRunning(Cur)
    /\ (pc = "idle" /\ tickCount < MaxTicks) =>
           \A spawn \in SpawnDraws, io \in IODraws :
               (spawn # NoSpawn => PID_COUNTER <= MaxPid) =>
                   LET ph == TickPhases(Cur, spawn, io)
                   IN  /\ SingleRunning(ph.spawn)
                       /\ SingleRunning(ph.io)
                       /\ SingleRunning(ph.schedule)
                       /\ SingleRunning(ph.execute)

(* A tick has ended with one process on the CPU and another ready.         *)
C7_Witness ==
    /\ pc = "idle"
    /\ tickCount >= 1
    /\ currentRunning # NoPid
    /\ processes[currentRunning].state = "Ejecutando"
    /\ readyQueue # <<>>

(***************************************************************************)
(* Claims about the order in which waiters get memory (SpecMem).           *)
(***************************************************************************)
Pos(q, x) == CHOOSE i \in DOMAIN q : q[i] = x

(* C8: whenever a process leaves waitingForMem with a block, no process    *)
(* that entered waitingForMem before it is still waiting with a request    *)
(* that the space free at that moment would have fitted.                   *)
C8_WaiterFairness ==
    [][\A w \in Range(waitingForMem) \ Range(waitingForMem') :
           (w \in DOMAIN allocs' /\ w \notin DOMAIN allocs) =>
               \A u \in Range(waitingForMem) \cap Range(waitingForMem') :
                   Pos(waitingForMem, u) < Pos(waitingForMem, w) =>
                       ~Fits(free, processes[u].memReq)]_vars

(* P2 (60) has just been given the memory released by P1 (50) while P3 is  *)
(* still waiting behind it.                                                *)
C8_Witness ==
    /\ pc = "awaken"
    /\ currentRunning = 1
    /\ processes[1].memReq = 50
    /\ 2 \in DOMAIN allocs
    /\ processes[2].memReq = 60
    /\ waitingForMem = <<3>>

(* C9: no process is given a block, by a retry of the waiters or by the    *)
(* allocation attempted at its creation, while a process that arrived      *)
(* earlier is still unsatisfied in waitingForMem.  (Stated for earlier     *)
(* waiters whose request is a number, so that a violation does not rest on *)
(* a request that can never be satisfied.)                                 *)
C9_StrictArrivalOrder ==
    [][\A g \in DOMAIN allocs' \ DOMAIN allocs :
           \A u \in Range(waitingForMem) \cap Range(waitingForMem') :
               ~(u < g /\ processes[u].memReq # NaN)]_vars

(***************************************************************************)
(* The quantum scenario, checked under SpecQuantum: two processes of burst *)
(* 10 created before the first tick, TIME_QUANTUM = 3.                     *)
(***************************************************************************)
(* After tick t: the running pid, the ready queue, the remaining bursts of *)
(* P1 and P2 and the quantum left to the running process, for t = 0..9     *)
(* (index t + 1).                                                          *)
QRun == <<NoPid, 1, 1, NoPid, 2, 2, NoPid, 1, 1, NoPid>>
QReady == <<<<1, 2>>, <<2>>, <<2>>, <<2, 1>>, <<1>>, <<1>>, <<1, 2>>, <<2>>, <<2>>, <<2, 1>>>>
QRem1 == <<10, 9, 8, 7, 7, 7, 7, 6, 5, 4>>
QRem2 == <<10, 10, 10, 10, 9, 8, 7, 7, 7, 7>>
QLeft == <<3, 2, 1, 3, 2, 1, 3, 2, 1, 3>>

QAt(t) ==
    /\ pc = "idle"
    /\ tickCount = t
    /\ DOMAIN processes = {1, 2}
    /\ processes[1].totalCpu = 10 /\ processes[2].totalCpu = 10
    /\ processes[1].remainingCpu = QRem1[t + 1]
    /\ processes[2].remainingCpu = QRem2[t + 1]
    /\ currentRunning = QRun[t + 1]
    /\ readyQueue = QReady[t + 1]
    /\ ioQueue = <<>> /\ waitingForMem = <<>>
    /\ \A p \in {1, 2} :
           /\ processes[p].state = IF p = QRun[t + 1] THEN "Ejecutando" ELSE "Listo"
           /\ processes[p].quantumLeft = IF p = QRun[t + 1] THEN QLeft[t + 1]
                                                            ELSE TIME_QUANTUM

(* C10: with TIME_QUANTUM = 3, no spawn and no I/O, and two Ready          *)
(* processes of burst 10 created before the first tick, P1 runs ticks 1-3, *)
(* P2 ticks 4-6, P1 ticks 7-9, the running process being preempted at the  *)
(* end of ticks 3, 6 and 9.                                                *)
C10_QuantumAlternation ==
    [][\A t \in 0..8 :
           (QAt(t) /\ tickCount' = tickCount + 1) => QAt(t + 1)']_vars

(* The end of tick 9: P1 has just been preempted for the second time.      *)
C10_Witness == QAt(9)

(* C11: in the quantum scenario the contextSwitches counter is exactly 3   *)
(* once the three preemptions of ticks 3, 6 and 9 have happened and before *)
(* either process terminates.                                              *)
C11_ContextSwitchCount == QAt(9) => contextSwitches = 3

(***************************************************************************)
(* Claim about the tick in which a process terminates, checked under       *)
(* SpecWait.  pc = "awaken" and pc = "terminate" are the steps of that     *)
(* tick.                                                                   *)
(***************************************************************************)
(* C12: in the tick in which the remainingCpu of the running process       *)
(* reaches 0 its block goes back to the allocator, waitingForMem is        *)
(* retried from the head, every waiter that fits gets a block and is       *)
(* appended to readyQueue, the retry stops at the first waiter that does   *)
(* not fit, no waiter behind it is served in the rest of the tick, and the *)
(* process leaves the process table before the tick ends.                  *)
C12_TerminationReleasesAndRetries ==
    [][/\ (pc = "idle" /\ pc' = "awaken") =>
              LET p == currentRunning'
              IN  /\ tickCount' = tickCount + 1
                  /\ processes'[p].remainingCpu = 0
                  /\ p \in DOMAIN allocs /\ p \notin DOMAIN allocs'
                  /\ FreeSpace(free') = FreeSpace(free) + allocs[p][2]
                  /\ waitingForMem' = waitingForMem
                  /\ toTry' = waitingForMem
       /\ (pc = "awaken" /\ toTry # <<>>) =>
              LET w == Head(toTry)
              IN  /\ w = Head(waitingForMem)
                  /\ IF Fits(free, processes[w].memReq)
                     THEN /\ w \in DOMAIN allocs'
                          /\ allocs'[w][2] = processes[w].memReq
                          /\ processes'[w].memBlock = allocs'[w]
                          /\ processes'[w].state = "Listo"
                          /\ readyQueue' = Append(readyQueue, w)
                          /\ waitingForMem' = Tail(waitingForMem)
                          /\ toTry' = Tail(toTry)
                          /\ pc' = "awaken"
                     ELSE /\ pc' = "terminate"
                          /\ allocs' = allocs /\ free' = free
                          /\ readyQueue' = readyQueue
                          /\ waitingForMem' = waitingForMem
       /\ (pc = "awaken" /\ toTry = <<>>) =>
              /\ pc' = "terminate"
              /\ allocs' = allocs /\ free' = free
              /\ readyQueue' = readyQueue /\ waitingForMem' = waitingForMem
       /\ pc = "terminate" =>
              /\ pc' = "idle"
              /\ currentRunning \notin DOMAIN processes'
              /\ currentRunning' = NoPid
              /\ allocs' = allocs /\ free' = free
              /\ readyQueue' = readyQueue /\ waitingForMem' = waitingForMem
       /\ pc # "idle" => tickCount' = tickCount]_vars

(* P1 (60) has terminated; P2 (50) was served from the head of the queue,  *)
(* the retry stopped at P3 (60), and P4 (50), which would fit, still       *)
(* waits.                                                                  *)
C12_Witness ==
    /\ pc = "terminate"
    /\ currentRunning = 1
    /\ processes[1].memReq = 60
    /\ allocs = 2 :> <<0, 50>>
    /\ readyQueue = <<2>>
    /\ waitingForMem = <<3, 4>>
    /\ ~Fits(free, processes[3].memReq)
    /\ Fits(free, processes[4].memReq)

(***************************************************************************)
(* Claims about the completion of the handlers, checked under SpecMem.     *)
(***************************************************************************)
(* C13: no tick, manual creation or reset ends with an uncaught exception. *)
C13_NoCrash == fault = FALSE

(* A step that ends a tick: a tick without termination, or the last step   *)
(* of a tick with one.                                                     *)
TickEnds ==
    \/ pc = "idle" /\ pc' = "idle" /\ tickCount' = tickCount + 1
    \/ pc = "terminate" /\ pc' = "idle"

(* C14: every tick calls updateGUI exactly once, after its phases, and no  *)
(* tick ends without that call.                                            *)
C14_SnapshotPerTick ==
    [][/\ TickEnds => guiUpdates' = 1
       /\ pc' # "idle" => guiUpdates' = 0]_vars

(***************************************************************************)
(* Claim about resetSimulation, checked under Spec.                        *)
(***************************************************************************)
(* The state the program starts in, as the claim lists it.                 *)
C15_InitialState ==
    /\ processes = EmptyMap
    /\ readyQueue = <<>> /\ ioQueue = <<>> /\ waitingForMem = <<>>
    /\ currentRunning = NoPid
    /\ free = <<<<0, MEM_TOTAL>>>> /\ allocs = EmptyMap
    /\ tickCount = 0
    /\ completedProcesses = 0 /\ totalWaitTime = 0
    /\ contextSwitches = 0 /\ totalProcessesCreated = 0
    /\ processStartTimes = EmptyMap
    /\ PID_COUNTER = 1
    /\ isRunning = FALSE

(* C15: resetSimulation can run between any two handlers, it leaves the    *)
(* initial state whatever the state before it, and a second reset right    *)
(* after a first changes nothing.                                          *)
C15_ResetTotalIdempotent ==
    /\ [](pc = "idle" => ENABLED ResetSimulation)
    /\ [][ResetSimulation =>
             /\ C15_InitialState'
             /\ C15_InitialState =>
                    UNCHANGED <<processes, readyQueue, ioQueue, waitingForMem,
                                currentRunning, free, allocs, tickCount,
                                completedProcesses, totalWaitTime, contextSwitches,
                                totalProcessesCreated, processStartTimes,
                                PID_COUNTER, isRunning>>]_vars

(* The state right after a reset: only resetSimulation calls updateGUI and *)
(* leaves an empty process table at tick 0.                                *)
C15_Witness == C15_InitialState /\ guiUpdates = 1

(***************************************************************************)
(* Claims about the manual form, checked under SpecQuantum (C16) and       *)
(* SpecMem (C17).                                                          *)
(***************************************************************************)
(* A number outside [lo, hi].                                              *)
OutOfRange(x, lo, hi) == x # NaN /\ (x < lo \/ x > hi)

(* The inputs of the form of which the memory requirement is a number      *)
(* outside [MIN_PROC_MEM, MAX_PROC_MEM] or the CPU burst a number outside  *)
(* [MIN_CPU_BURST, MAX_CPU_BURST].                                         *)
C16_Inputs ==
    {in \in QuantumManualMemInputs \X QuantumManualBurstInputs :
        \/ OutOfRange(in[1], MIN_PROC_MEM, MAX_PROC_MEM)
        \/ OutOfRange(in[2], MIN_CPU_BURST, MAX_CPU_BURST)}

(* C16: createManualProcess with a memory requirement that is a number     *)
(* outside [MIN_PROC_MEM, MAX_PROC_MEM] or a CPU burst that is a number    *)
(* outside [MIN_CPU_BURST, MAX_CPU_BURST] changes neither the process      *)
(* table, nor a queue, nor the allocator, nor PID_COUNTER, nor a counter.  *)
C16_ManualValidation ==
    [][(\E in \in C16_Inputs : CreateManualInput(in[1], in[2]))
           => UNCHANGED <<processes, readyQueue, ioQueue, waitingForMem,
                          currentRunning, free, allocs, PID_COUNTER, tickCount,
                          completedProcesses, totalWaitTime, contextSwitches,
                          totalProcessesCreated, processStartTimes>>]_vars

(* A state with a process on the CPU, left by a handler that did not call  *)
(* updateGUI, in which the form is submitted with a memory requirement     *)
(* above the maximum.                                                      *)
C16_Witness ==
    /\ pc = "idle"
    /\ guiUpdates = 0 /\ fault = FALSE
    /\ tickCount >= 1
    /\ currentRunning # NoPid
    /\ PID_COUNTER <= QuantumMaxPid
    /\ ENABLED CreateManualInput(MAX_PROC_MEM + 1, MIN_CPU_BURST)

(* C17: every process of the table has a memReq that is an integer of     *)
(* [MIN_PROC_MEM, MAX_PROC_MEM] and a CPU burst that is an integer of      *)
(* [MIN_CPU_BURST, MAX_CPU_BURST], whatever was typed in the form, and its *)
(* memReq never changes.                                                   *)
C17_RequestsInRange ==
    /\ [](\A p \in DOMAIN processes :
              /\ processes[p].memReq # NaN
              /\ processes[p].memReq >= MIN_PROC_MEM
              /\ processes[p].memReq <= MAX_PROC_MEM
              /\ processes[p].totalCpu # NaN
              /\ processes[p].totalCpu >= MIN_CPU_BURST
              /\ processes[p].totalCpu <= MAX_CPU_BURST)
    /\ [][\A p \in DOMAIN processes \cap DOMAIN processes' :
              PID_COUNTER' >= PID_COUNTER =>
                  processes'[p].memReq = processes[p].memReq]_vars

(***************************************************************************)
(* Claims about what a process holds and about the counters (Spec).        *)
(***************************************************************************)
HoldsBlock(p) ==
    /\ processes[p].memBlock # NoBlock
    /\ p \in DOMAIN allocs
    /\ allocs[p] = processes[p].memBlock
    /\ allocs[p][2] = processes[p].memReq

(* C18: between handlers (after every tick and every creation) a process   *)
(* of the table has memBlock set and an entry of its size in allocs if and *)
(* only if its state is Listo, Ejecutando or Bloqueado; a process in       *)
(* EsperandoMem has neither, and allocs has no entry for a pid that has    *)
(* left the table.                                                         *)
C18_BlockMatchesState ==
    pc = "idle" =>
        /\ \A p \in DOMAIN processes :
               /\ processes[p].state \in {"Listo", "Ejecutando", "Bloqueado", "EsperandoMem"}
               /\ HoldsBlock(p) <=> processes[p].state \in {"Listo", "Ejecutando", "Bloqueado"}
               /\ processes[p].state = "EsperandoMem" =>
                      processes[p].memBlock = NoBlock /\ p \notin DOMAIN allocs
        /\ DOMAIN allocs \subseteq DOMAIN processes

(* One process is blocked for I/O and keeps its block while another waits  *)
(* for memory and holds none.                                              *)
C18_Witness ==
    /\ pc = "idle"
    /\ \E p, q \in DOMAIN processes :
           /\ processes[p].state = "Bloqueado" /\ HoldsBlock(p)
           /\ processes[q].state = "EsperandoMem" /\ q \notin DOMAIN allocs

(* The processes a step takes from the CPU back to the ready queue or to   *)
(* the I/O queue.                                                          *)
LeftCpu ==
    {p \in DOMAIN processes \cap DOMAIN processes' :
        /\ processes[p].state = "Ejecutando"
        /\ processes'[p].state \in {"Listo", "Bloqueado"}}

(* C19: contextSwitches goes up by one in every tick that moves the        *)
(* running process to Listo (preemption) or to Bloqueado, and no step      *)
(* other than a tick or a reset changes it.                                *)
C19_ContextSwitchAccounting ==
    [][/\ LeftCpu # {} => contextSwitches' = contextSwitches + 1
       /\ contextSwitches' # contextSwitches =>
              tickCount' = tickCount + 1 \/ contextSwitches' = 0]_vars

(* C20: a termination adds 1 to completedProcesses and tickCount minus the *)
(* tick of creation of the process to totalWaitTime, a creation adds 1 to  *)
(* totalProcessesCreated, and no other step but a reset changes any of the *)
(* three counters.  The tick of creation is what processStartTimes holds   *)
(* for the process from its creation to its removal.                       *)
C20_CompletionAccounting ==
    [][~ResetSimulation =>
          LET created == PID_COUNTER' = PID_COUNTER + 1
              terminated == pc = "terminate"
          IN  /\ totalProcessesCreated' =
                     totalProcessesCreated + (IF created THEN 1 ELSE 0)
              /\ created => processStartTimes'[PID_COUNTER] = tickCount'
              /\ \A p \in DOMAIN processes \cap DOMAIN processes' :
                     processStartTimes'[p] = processStartTimes[p]
              /\ completedProcesses' =
                     completedProcesses + (IF terminated THEN 1 ELSE 0)
              /\ totalWaitTime' =
                     totalWaitTime + (IF terminated
                                      THEN tickCount - processStartTimes[currentRunning]
                                      ELSE 0)
              /\ terminated => currentRunning \notin DOMAIN processes']_vars

(* Two processes were created, one of them after the first tick, and one   *)
(* has terminated.                                                         *)
C20_Witness ==
    /\ pc = "idle"
    /\ totalProcessesCreated = 2
    /\ completedProcesses = 1
    /\ totalWaitTime >= 1
    /\ \E p \in DOMAIN processStartTimes : processStartTimes[p] >= 1

C22_CpuUtilization ==
    pc = "idle" =>
        CalculateCPUUtilization(Cur) =
            IF currentRunning # NoPid THEN 100
            ELSE IF readyQueue # <<>> THEN 50
            ELSE 0

(***************************************************************************)
(* Claims about the ready queue and the phases of a tick (Spec).  The      *)
(* phases are those of every tick that can start in the current state.     *)
(***************************************************************************)
(* b is a with elements appended at its tail.                              *)
ExtendsAtTail(a, b) == Len(b) >= Len(a) /\ SubSeq(b, 1, Len(a)) = a

(* C23: processes enter readyQueue only at its tail (in the spawn, I/O and *)
(* execute phases of a tick, in the retry after a release and at a         *)
(* creation); the schedule phase is the only one that removes an entry, it *)
(* removes the head and only when the CPU is idle, and the process it      *)
(* dispatches starts with quantumLeft = TIME_QUANTUM.                      *)
C23_ReadyQueueFifo ==
    /\ [](pc = "idle" /\ tickCount < MaxTicks =>
             \A spawn \in SpawnDraws, io \in IODraws :
                 (spawn # NoSpawn => PID_COUNTER <= MaxPid) =>
                     LET ph == TickPhases(Cur, spawn, io)
                         q == ph.io.readyQueue
                     IN  /\ ExtendsAtTail(readyQueue, ph.spawn.readyQueue)
                         /\ ExtendsAtTail(ph.spawn.readyQueue, q)
                         /\ IF ph.io.currentRunning = NoPid /\ q # <<>>
                            THEN /\ ph.schedule.currentRunning = Head(q)
                                 /\ ph.schedule.readyQueue = Tail(q)
                                 /\ ph.schedule.processes[Head(q)].state = "Ejecutando"
                                 /\ ph.schedule.processes[Head(q)].quantumLeft
                                        = TIME_QUANTUM
                            ELSE /\ ph.schedule.currentRunning = ph.io.currentRunning
                                 /\ ph.schedule.readyQueue = q
                         /\ ExtendsAtTail(ph.schedule.readyQueue, ph.execute.readyQueue))
    /\ [][(tickCount' = tickCount /\ ~ResetSimulation) =>
             /\ ExtendsAtTail(readyQueue, readyQueue')
             /\ currentRunning' \in {currentRunning, NoPid}]_vars

(* P1, enqueued before P2, was dispatched first, left the CPU and went     *)
(* back to the tail of the queue behind P2, and P2, then at the head, is   *)
(* the one on the CPU.                                                     *)
C23_Witness ==
    /\ pc = "idle"
    /\ tickCount >= 2
    /\ currentRunning = 2
    /\ processes[2].state = "Ejecutando"
    /\ readyQueue = <<1>>
    /\ processes[1].state = "Listo"
    /\ 1 \in DOMAIN allocs

(***************************************************************************)
(* Claim about the memory retry of tick (script.js 229-245), checked under *)
(* SpecMem.                                                                *)
(***************************************************************************)
(* C24: the memory-retry phase of every tick goes through waitingForMem    *)
(* from the head and runs to its end: every waiter it takes out of the     *)
(* queue holds a block, is in state Listo and in readyQueue, and it stops  *)
(* at the first waiter that does not fit, so that when the tick ends the   *)
(* head of waitingForMem, if there is one, does not fit.                   *)
C24_PerTickMemoryRetry ==
    [][TickEnds =>
          /\ fault' = FALSE
          /\ \A w \in Range(waitingForMem) \ Range(waitingForMem') :
                 /\ w \in DOMAIN allocs'
                 /\ processes'[w].state = "Listo"
                 /\ w \in Range(readyQueue')
          /\ waitingForMem' # <<>> =>
                 ~Fits(free', processes'[Head(waitingForMem')].memReq)]_vars

(* C25: in the execute phase of a tick, a running process that executes a  *)
(* unit and does not terminate goes to Listo, to the tail of readyQueue,   *)
(* and frees the CPU if and only if its quantumLeft is then 0 or less and  *)
(* readyQueue is not empty; otherwise it stays on the CPU, readyQueue and  *)
(* contextSwitches are untouched, and with an empty readyQueue its quantum *)
(* is TIME_QUANTUM again.                                                  *)
C25_PreemptionRule ==
    pc = "idle" /\ tickCount < MaxTicks =>
        \A spawn \in SpawnDraws :
            (spawn # NoSpawn => PID_COUNTER <= MaxPid) =>
                LET ph == TickPhases(Cur, spawn, NoIO)
                    s == ph.schedule
                    e == ph.execute
                    p == s.currentRunning
                IN  (p # NoPid /\ ~ph.terminating) =>
                        LET left == s.processes[p].quantumLeft - 1
                        IN  /\ e.processes[p].remainingCpu
                                   = JsDec(s.processes[p].remainingCpu)
                            /\ IF left <= 0 /\ s.readyQueue # <<>>
                               THEN /\ e.processes[p].state = "Listo"
                                    /\ e.readyQueue = Append(s.readyQueue, p)
                                    /\ e.currentRunning = NoPid
                               ELSE /\ e.processes[p].state = "Ejecutando"
                                    /\ e.currentRunning = p
                                    /\ e.readyQueue = s.readyQueue
                                    /\ e.contextSwitches = s.contextSwitches
                                    /\ e.processes[p].quantumLeft =
                                           IF s.readyQueue = <<>> THEN TIME_QUANTUM
                                                                  ELSE left

(* P1 has used its three ticks while P2 was ready and has just been        *)
(* preempted: it is at the tail of readyQueue behind P2, the CPU is free.  *)
C25_Witness ==
    /\ pc = "idle"
    /\ tickCount = TIME_QUANTUM
    /\ currentRunning = NoPid
    /\ readyQueue = <<2, 1>>
    /\ processes[1].state = "Listo"
    /\ processes[1].remainingCpu = processes[1].totalCpu - TIME_QUANTUM

(* The processes a step preempts: taken from the CPU back to readyQueue.   *)
Preempted ==
    {p \in DOMAIN processes \cap DOMAIN processes' :
        /\ processes[p].state = "Ejecutando"
        /\ processes'[p].state = "Listo"}

(* C26: a preemption does not reset the quantum: the preempted process     *)
(* enters readyQueue with its exhausted quantumLeft (0 or less) and keeps  *)
(* it while it sits there; quantumLeft goes back to TIME_QUANTUM only when *)
(* the process is dispatched again.  Checked under SpecQuantum.            *)
C26_QuantumResetOnDispatch ==
    [][/\ \A p \in Preempted : processes'[p].quantumLeft <= 0
       /\ \A p \in DOMAIN processes \cap DOMAIN processes' :
              (processes[p].state = "Listo" /\ processes'[p].state = "Listo") =>
                  processes'[p].quantumLeft = processes[p].quantumLeft]_vars

(* The state changes of the life cycle, removal aside.                     *)
AllowedChanges ==
    {<<"EsperandoMem", "Listo">>, <<"Listo", "Ejecutando">>,
     <<"Ejecutando", "Listo">>, <<"Ejecutando", "Bloqueado">>,
     <<"Bloqueado", "Listo">>}

(* From the process table pa to the process table pb every process made at *)
(* most one allowed change, only a running process was removed, and a      *)
(* process that entered the table has left Nuevo for Listo or EsperandoMem.*)
Conforms(pa, pb) ==
    /\ \A p \in DOMAIN pa \cap DOMAIN pb :
           \/ pb[p].state = pa[p].state
           \/ <<pa[p].state, pb[p].state>> \in AllowedChanges
    /\ \A p \in DOMAIN pa \ DOMAIN pb : pa[p].state = "Ejecutando"
    /\ \A p \in DOMAIN pb \ DOMAIN pa : pb[p].state \in {"Listo", "EsperandoMem"}
    /\ \A p \in DOMAIN pb : pb[p].state # "Nuevo"

(* C27: from one phase of a tick to the next, and in every step that is no *)
(* phase of a tick (a creation, an iteration of the retry after a release, *)
(* the removal that ends a tick), every state change of a process is one   *)
(* of Nuevo to Listo, Nuevo to EsperandoMem, EsperandoMem to Listo, Listo  *)
(* to Ejecutando, Ejecutando to Listo, Ejecutando to Bloqueado, Bloqueado  *)
(* to Listo or the removal of the running process, a process starts in     *)
(* Nuevo, and none is in Nuevo once its creation is over.                  *)
C27_StateMachine ==
    /\ [](pc = "idle" /\ tickCount < MaxTicks =>
             \A spawn \in SpawnDraws, io \in IODraws :
                 (spawn # NoSpawn => PID_COUNTER <= MaxPid) =>
                     LET ph == TickPhases(Cur, spawn, io)
                     IN  /\ Conforms(processes, ph.spawn.processes)
                         /\ Conforms(ph.spawn.processes, ph.io.processes)
                         /\ Conforms(ph.io.processes, ph.schedule.processes)
                         /\ Conforms(ph.schedule.processes, ph.execute.processes)
                         /\ spawn # NoSpawn =>
                                Process(spawn[1], spawn[2]).state = "Nuevo")
    /\ [][(tickCount' = tickCount /\ ~ResetSimulation) =>
             Conforms(processes, processes')]_vars

(* P1 went from Nuevo to Listo, Ejecutando and Bloqueado, and P2, which    *)
(* entered the table after it, is on the CPU.                              *)
C27_Witness ==
    /\ pc = "idle"
    /\ tickCount >= 2
    /\ DOMAIN processes = {1, 2}
    /\ processes[1].state = "Bloqueado"
    /\ processes[2].state = "Ejecutando"
    /\ currentRunning = 2

(***************************************************************************)
(* Claim about the CPU burst, checked under Spec.                          *)
(***************************************************************************)
(* The processes that execute a unit in a step: those a tick leaves on the *)
(* CPU and those it preempts.                                              *)
Executed ==
    IF pc = "idle" /\ tickCount' = tickCount + 1
    THEN {p \in DOMAIN processes \cap DOMAIN processes' :
             processes'[p].state = "Ejecutando"} \cup Preempted
    ELSE {}

(* C28: remainingCpu goes down by exactly 1 in each tick in which the      *)
(* process is on the CPU and the I/O trigger does not fire, and changes in *)
(* no other step; at the end of every tick every process of the table has  *)
(* 1 <= remainingCpu <= totalCpu, and the process whose remainingCpu       *)
(* reaches 0 is removed in that same tick.                                 *)
C28_BurstAccounting ==
    /\ [](pc = "idle" =>
             \A p \in DOMAIN processes :
                 /\ processes[p].remainingCpu # NaN
                 /\ processes[p].remainingCpu >= 1
                 /\ processes[p].remainingCpu <= processes[p].totalCpu)
    /\ [](pc # "idle" =>
             /\ processes[currentRunning].remainingCpu = 0
             /\ \A p \in DOMAIN processes \ {currentRunning} :
                    processes[p].remainingCpu >= 1)
    /\ [][/\ \A p \in DOMAIN processes \cap DOMAIN processes' :
                 processes'[p].remainingCpu =
                     IF p \in Executed THEN processes[p].remainingCpu - 1
                                       ELSE processes[p].remainingCpu
          /\ pc = "terminate" => currentRunning \notin DOMAIN processes']_vars

(***************************************************************************)
(* Claims about I/O, checked under SpecBlock.                              *)
(***************************************************************************)
(* The processes a step blocks for I/O.                                    *)
BlockedNow ==
    {p \in DOMAIN processes \cap DOMAIN processes' :
        /\ processes[p].state # "Bloqueado"
        /\ processes'[p].state = "Bloqueado"}

(* C29: when the I/O trigger fires, the running process goes to Bloqueado  *)
(* with an ioRemaining that randomInt(MIN_IO, MAX_IO) returned, a value of *)
(* [MIN_IO, MAX_IO], and to the tail of ioQueue; the CPU is released, its  *)
(* remainingCpu is the one it had before the tick, and for as long as it   *)
(* is blocked, the I/O phase that ends the blocking included, its block    *)
(* stays in allocs, the same as in memBlock.                               *)
C29_IoBlocking ==
    /\ [](/\ \A k \in 0 .. RandomSteps - 1 :
                RandomInt(MIN_IO, MAX_IO, k) \in MIN_IO .. MAX_IO
          /\ \A p \in DOMAIN processes :
                processes[p].state = "Bloqueado" =>
                    /\ p \in Range(ioQueue)
                    /\ p # currentRunning
                    /\ HoldsBlock(p)
          /\ pc = "idle" =>
                LET io == ProgressIO(SpawnPhase(Cur, NoSpawn))
                IN  io.allocs = allocs /\ io.free = free)
    /\ [][/\ \A p \in BlockedNow :
                 /\ tickCount' = tickCount + 1
                 /\ processes'[p].ioRemaining \in MIN_IO .. MAX_IO
                 /\ ioQueue' # <<>> /\ ioQueue'[Len(ioQueue')] = p
                 /\ currentRunning' = NoPid
                 /\ processes'[p].remainingCpu = processes[p].remainingCpu
                 /\ allocs'[p] = allocs[p]
                 /\ processes'[p].memBlock = processes[p].memBlock
          /\ \A p \in DOMAIN processes \cap DOMAIN processes' :
                 (processes[p].state = "Bloqueado"
                      /\ processes'[p].state \in {"Bloqueado", "Listo"}) =>
                     /\ allocs'[p] = allocs[p]
                     /\ processes'[p].memBlock = processes[p].memBlock
                     /\ processes'[p].remainingCpu = processes[p].remainingCpu]_vars

(* P1 ran one tick and was blocked in the next; it is still blocked, its    *)
(* remainingCpu and its block are those it had, and P2 has taken the CPU   *)
(* and executed.                                                           *)
C29_Witness ==
    /\ pc = "idle"
    /\ DOMAIN processes = {1, 2}
    /\ processes[1].state = "Bloqueado"
    /\ processes[1].ioRemaining = 1
    /\ processes[1].remainingCpu = processes[1].totalCpu - 1
    /\ ioQueue = <<1>>
    /\ currentRunning = 2
    /\ processes[2].remainingCpu < processes[2].totalCpu
    /\ allocs = (1 :> <<0, 40>>) @@ (2 :> <<40, 40>>)
    /\ processes[1].memBlock = <<0, 40>>

(* C30: the I/O phase of every tick takes 1 from the ioRemaining of every  *)
(* blocked process; the process whose ioRemaining reaches 0, in the d-th   *)
(* tick after a blocking for d, leaves ioQueue and goes to the tail of     *)
(* readyQueue in state Listo with quantumLeft = TIME_QUANTUM, and any      *)
(* other stays blocked and in ioQueue; no other phase and no other handler *)
(* changes the ioRemaining of a blocked process, and ioRemaining is 0 for  *)
(* every process that is not Bloqueado.                                    *)
C30_IoCompletion ==
    /\ [](\A p \in DOMAIN processes :
              IF processes[p].state = "Bloqueado"
              THEN processes[p].ioRemaining \in 1 .. MAX_IO /\ p \in Range(ioQueue)
              ELSE processes[p].ioRemaining = 0 /\ p \notin Range(ioQueue))
    /\ [](pc = "idle" /\ tickCount < BlockMaxTicks =>
             \A io \in BlockIODraws :
                 LET ph == TickPhases(Cur, NoSpawn, io)
                     a == ph.spawn
                     b == ph.io
                     done == {p \in Range(a.ioQueue) : a.processes[p].ioRemaining = 1}
                 IN  /\ \A p \in Range(a.ioQueue) :
                            b.processes[p].ioRemaining = a.processes[p].ioRemaining - 1
                     /\ \A p \in done :
                            /\ p \notin Range(b.ioQueue)
                            /\ b.processes[p].state = "Listo"
                            /\ b.processes[p].quantumLeft = TIME_QUANTUM
                     /\ \A p \in Range(a.ioQueue) \ done :
                            /\ p \in Range(b.ioQueue)
                            /\ b.processes[p].state = "Bloqueado"
                     /\ ExtendsAtTail(a.readyQueue, b.readyQueue)
                     /\ Len(b.readyQueue) = Len(a.readyQueue) + Cardinality(done)
                     /\ done \subseteq Range(b.readyQueue)
                     /\ \A p \in Range(b.ioQueue) :
                            /\ p \in Range(ph.execute.ioQueue)
                            /\ ph.execute.processes[p].ioRemaining
                                   = b.processes[p].ioRemaining)
    /\ [][\A p \in DOMAIN processes :
             processes[p].state = "Bloqueado" =>
                 \/ ResetSimulation
                 \/ /\ tickCount' = tickCount
                    /\ processes'[p].state = "Bloqueado"
                    /\ processes'[p].ioRemaining = processes[p].ioRemaining
                 \/ /\ tickCount' = tickCount + 1
                    /\ processes[p].ioRemaining > 1
                    /\ processes'[p].state = "Bloqueado"
                    /\ processes'[p].ioRemaining = processes[p].ioRemaining - 1
                 \/ /\ tickCount' = tickCount + 1
                    /\ processes[p].ioRemaining = 1
                    /\ p \in DOMAIN processes'
                    /\ p \in Range(readyQueue') \/ p = currentRunning'
                           \/ processes'[p].ioRemaining \in MIN_IO .. MAX_IO]_vars

(* P1, created before the first tick and alone since, has executed one     *)
(* unit in four ticks and is on the CPU: it was blocked for three ticks in *)
(* the first tick, its ioRemaining went 3, 2, 1, 0 and in the fourth tick, *)
(* the third after the blocking, it left ioQueue through readyQueue and    *)
(* was dispatched.                                                         *)
C30_Witness ==
    /\ pc = "idle"
    /\ tickCount = 4
    /\ PID_COUNTER = 2
    /\ DOMAIN processes = {1}
    /\ processStartTimes[1] = 0
    /\ processes[1].state = "Ejecutando"
    /\ processes[1].ioRemaining = 0
    /\ processes[1].remainingCpu = processes[1].totalCpu - 1
    /\ ioQueue = <<>>
    /\ currentRunning = 1

(***************************************************************************)
(* Claim about the two drivers of tick, checked under Spec.                *)
(***************************************************************************)
(* C31: at most one interval calls tick, and there is one exactly while    *)
(* isRunning holds, so that singleTick, which calls tick only when         *)
(* isRunning is false, can never start a tick in a state in which the      *)
(* timer can start one too; a tick started by either driver is the same    *)
(* tick(): every step that adds 1 to tickCount is a step of tick(), taken  *)
(* in a state in which exactly one of the two drivers can call it, and it  *)
(* leaves the driver as it was.  The tick draws a new process exactly when *)
(* the step consumes a pid.                                                *)
SpawnsOfStep == {s \in SpawnDraws : (s = NoSpawn) <=> (PID_COUNTER' = PID_COUNTER)}

C31_OneDriver ==
    /\ [](/\ timers \in {0, 1}
          /\ timers = 1 <=> isRunning
          /\ timers = 1 <=> tickInterval = "live"
          /\ ~(timers > 0 /\ ~isRunning))
    /\ [][tickCount' = tickCount + 1 =>
              /\ (timers > 0) # (~isRunning)
              /\ UNCHANGED <<isRunning, timers, tickInterval>>
              /\ TickWith(MaxTicks, MaxPid, SpawnsOfStep, IODraws)]_vars

(* The driver is running and its interval has just run a tick: no process  *)
(* was created since the last reset, so the handler that called updateGUI  *)
(* last was a tick, and the one interval was live when it ran.             *)
C31_Witness ==
    /\ pc = "idle"
    /\ isRunning
    /\ timers = 1
    /\ tickCount >= 1
    /\ PID_COUNTER = 1
    /\ guiUpdates = 1

(***************************************************************************)
(* Claim about the places of the processes of the table, checked under     *)
(* SpecMem.                                                                *)
(***************************************************************************)
NoRepeat(q) == \A i, j \in DOMAIN q : q[i] = q[j] => i = j

(* The number of places (queues and CPU) that hold pid p.                  *)
Places(p) ==
      (IF p \in Range(readyQueue) THEN 1 ELSE 0)
    + (IF p \in Range(ioQueue) THEN 1 ELSE 0)
    + (IF p \in Range(waitingForMem) THEN 1 ELSE 0)
    + (IF currentRunning = p THEN 1 ELSE 0)

ReadySlack(p, rq, cur, procs) ==
      (IF cur # NoPid /\ cur \in DOMAIN procs THEN procs[cur].quantumLeft ELSE 0)
    + (Pos(rq, p) - 1) * TIME_QUANTUM
    + 1

(* Pid 1 has executed in every tick since its creation, so that no other   *)
(* process was dispatched, and pid 2, created later, is in readyQueue,     *)
(* where it has been at position 0 since its creation.                     *)
HeadWaitsSinceCreation ==
    /\ pc = "idle"
    /\ {1, 2} \subseteq DOMAIN processes
    /\ processStartTimes[1] < processStartTimes[2]
    /\ processes[1].remainingCpu # NaN
    /\ processes[1].totalCpu - processes[1].remainingCpu = tickCount - processStartTimes[1]
    /\ 2 \in Range(readyQueue)

(* C33 as stated, for position 0: TIME_QUANTUM ticks after its creation    *)
(* the process at the head of readyQueue has been dispatched.              *)
C33_WaitWithinQuantum ==
    HeadWaitsSinceCreation => tickCount < processStartTimes[2] + TIME_QUANTUM

(* C33, with one tick more: a process at position k (0-based) of           *)
(* readyQueue is dispatched within (k + 1) * TIME_QUANTUM + 1 further      *)
(* ticks, whatever the draws.  In every state ReadySlack of a ready        *)
(* process is at least 1 and at most that bound; a tick that does not      *)
(* dispatch the process takes at least 1 off its ReadySlack and no other   *)
(* step adds to it; and a process that has waited at position 0 since its  *)
(* creation is dispatched TIME_QUANTUM + 1 ticks later at the latest.      *)
C33_BoundedWait ==
    /\ [](/\ \A p \in Range(readyQueue) :
                 /\ ReadySlack(p, readyQueue, currentRunning, processes) >= 1
                 /\ ReadySlack(p, readyQueue, currentRunning, processes)
                        <= Pos(readyQueue, p) * TIME_QUANTUM + 1
          /\ HeadWaitsSinceCreation =>
                 tickCount < processStartTimes[2] + TIME_QUANTUM + 1)
    /\ [][\A p \in Range(readyQueue) :
              \/ p \notin Range(readyQueue')
              \/ ReadySlack(p, readyQueue', currentRunning', processes')
                     <= ReadySlack(p, readyQueue, currentRunning, processes)
                            - (tickCount' - tickCount)]_vars

(* Pid 2 was created while pid 1 ran alone with a fresh quantum, waited at *)
(* the head of readyQueue while pid 1 executed TIME_QUANTUM ticks, and has *)
(* been dispatched in the tick after, TIME_QUANTUM + 1 ticks after its     *)
(* creation.                                                               *)
C33_Witness ==
    /\ pc = "idle"
    /\ {1, 2} \subseteq DOMAIN processes
    /\ processStartTimes[1] < processStartTimes[2]
    /\ tickCount = processStartTimes[2] + TIME_QUANTUM + 1
    /\ currentRunning = 2
    /\ processes[2].remainingCpu = processes[2].totalCpu - 1
    /\ readyQueue = <<1>>
    /\ processes[1].totalCpu - processes[1].remainingCpu
           = tickCount - 1 - processStartTimes[1]

(***************************************************************************)
(* Claim about the count of processes, checked under Spec.                 *)
(***************************************************************************)
(* C34: in every state, whatever ticks, manual creations, random creations *)
(* and resets came before, totalProcessesCreated is completedProcesses     *)
(* plus the number of processes of the table.                              *)
C34_CountConservation ==
    totalProcessesCreated = completedProcesses + Cardinality(DOMAIN processes)

(* Two processes were created, one of them has terminated and the other is *)
(* still in the table.                                                     *)
C34_Witness ==
    /\ pc = "idle"
    /\ totalProcessesCreated = 2
    /\ completedProcesses = 1
    /\ Cardinality(DOMAIN processes) = 1

(***************************************************************************)
(* Claim about the two releases of a terminating process, checked under    *)
(* SpecWait.                                                               *)
(***************************************************************************)
(* The pids firstFitAllocate is called for in the current state: the pid   *)
(* of the next process created (script.js 277-279) and, in                 *)
(* freeMemoryAndAwaken, the waiter tried next (script.js 305-306).         *)
AllocationTargets ==
    {PID_COUNTER} \cup
    (IF pc = "awaken" /\ toTry # <<>> /\ Head(toTry) \in DOMAIN processes
     THEN {Head(toTry)} ELSE {})

(* C35: freeAlloc for a pid without an entry in allocs changes nothing;    *)
(* firstFitAllocate is never called for a pid that has an entry; when      *)
(* terminateProcess runs, the terminating process has a memBlock, so the   *)
(* second release is made, and no entry, so it changes neither allocs nor  *)
(* the free list and every waiter awakened in the tick keeps its block;    *)
(* and in every state the free intervals and the blocks add up to the      *)
(* whole memory and every block belongs to a process of the table.         *)
C35_ReleaseOnlyOwnBlock ==
    /\ [](/\ \A q \in (1 .. PID_COUNTER) \ DOMAIN allocs :
                 FreeAlloc(free, allocs, q) = [free |-> free, allocs |-> allocs]
          /\ AllocationTargets \cap DOMAIN allocs = {}
          /\ pc = "terminate" =>
                 /\ processes[currentRunning].memBlock # NoBlock
                 /\ currentRunning \notin DOMAIN allocs
          /\ FreeSpace(free) + UsedSpace(allocs) = MEM_TOTAL
          /\ DOMAIN allocs \subseteq DOMAIN processes)
    /\ [][pc = "terminate" =>
              /\ allocs' = allocs
              /\ free' = free
              /\ \A w \in DOMAIN allocs : processes'[w].memBlock = allocs[w]]_vars

(* P1 has terminated and its second release has been made; P2, created    *)
(* while P1 held the block at address 0, waited for memory and now holds   *)
(* the block at that address.                                              *)
C35_Witness ==
    /\ pc = "idle"
    /\ tickCount = MIN_CPU_BURST
    /\ completedProcesses = 1
    /\ 1 \notin DOMAIN processes
    /\ 2 \in DOMAIN allocs
    /\ allocs[2][1] = 0
    /\ processes[2].state = "Listo"
    /\ processStartTimes[2] < tickCount

(***************************************************************************)
(* Claim about the end of the work, checked under SpecDrain.               *)
(***************************************************************************)
(* The process table and the queues are empty, the CPU is idle and the     *)
(* allocator is back to MemoryManager's initial state (script.js 60-66).   *)
Drained ==
    /\ DOMAIN processes = {}
    /\ readyQueue = <<>> /\ ioQueue = <<>> /\ waitingForMem = <<>>
    /\ currentRunning = NoPid
    /\ allocs = <<>>
    /\ free = <<<<0, MEM_TOTAL>>>>

(* C36: once no process is created any more and the I/O trigger has        *)
(* stopped firing, the ticks that follow terminate every process of the    *)
(* table, those in waitingForMem included: a state is reached in which the *)
(* table and the queues are empty and the free list is the single interval *)
(* (0, MEM_TOTAL).                                                         *)
C36_DrainLiveness == (pc = "idle" /\ tickCount >= DrainQuiet) ~> Drained

(***************************************************************************)
(* Claim about the guard of the protected routes, checked under SpecRbac.  *)
(***************************************************************************)
(* The permissions seed() gives the user nombre through its role.          *)
SeedPermisos(nombre) ==
    LET u == CHOOSE x \in Range(SeedUsuarios) : x.nombre = nombre
    IN  Roles[u.rol]

(* C37: whatever logins, logouts and page requests came before, the        *)
(* handler of a protected route runs only when the session holds a user,   *)
(* that user is the one of the last successful login, no logout has        *)
(* followed that login, and the permissions seed() gave that user include  *)
(* every action the route requires or GESTION_TOTAL; a request that does   *)
(* not run the handler is redirected to /login when the session holds no   *)
(* user and answered 403 when it holds one.  A user in the session is      *)
(* always the one of a login that no logout has followed.                  *)
C37_RbacGuard ==
    /\ [](rbac.user # NoUser =>
              /\ rbac.loggedIn = rbac.user.nombreUsuario
              /\ rbac.user.permisos = SeedPermisos(rbac.loggedIn))
    /\ [][(/\ rbac'.requests = rbac.requests + 1
           /\ rbac'.response.metodo = "GET"
           /\ rbac'.response.ruta \in DOMAIN Acciones) =>
              LET r == rbac'.response
                  allowed == /\ rbac.loggedIn # NoUsuario
                             /\ rbac.user # NoUser
                             /\ rbac.user.nombreUsuario = rbac.loggedIn
                             /\ \/ Acciones[r.ruta] \subseteq SeedPermisos(rbac.loggedIn)
                                \/ GESTION_TOTAL \in SeedPermisos(rbac.loggedIn)
              IN  /\ r.handler <=> allowed
                  /\ r.handler => r.status = 200
                  /\ ~r.handler =>
                         IF rbac.user = NoUser
                         THEN r.status = 302 /\ r.location = "/login"
                         ELSE r.status = 403
                  /\ rbac'.user = rbac.user]_vars

(* carlos, a Gerente, has logged in, three requests had been answered     *)
(* before, and the handler of /aprobacion has run for that user.           *)
C37_Witness ==
    /\ rbac.requests = RbacMaxRequests
    /\ rbac.loggedIn = "carlos"
    /\ rbac.user.nombreUsuario = "carlos"
    /\ rbac.response.ruta = "/aprobacion"
    /\ rbac.response.handler

====
